---- MODULE Spec2Model ----
(***************************************************************************)
(* Model of the fill-in-the-blanks code masking engine                     *)
(* (src/src/code_masking.py, class CodeMasker).                            *)
(*                                                                         *)
(* Text is a sequence of one-character strings.  Offsets are 0-based as in *)
(* the source; Slice(s, a, b) is Python's s[a:b].                          *)
(***************************************************************************)
EXTENDS Integers, Sequences, FiniteSets, TLC

(***************************************************************************)
(* Bounds of the model.                                                    *)
(***************************************************************************)
\* Longest input, counted in lexemes (see Lexemes).
MaxLexemes == 3
\* Width of the whitespace run used as filler / indentation in the inputs.
PadLen == 21
\* Number of states of the modelled pseudo random generator.
RngMod == 4
\* Largest session seed handed to create_masked_code.
MaxSeed == 1
\* Largest number of session manager calls in a behaviour.
MaxManagerCalls == 4
\* Hours the clock of the session manager runs for.
MaxHours == 2
\* Seconds between two readings of the clock.
ClockStep == 1800
\* Largest count argument of create_multiple_masks.
MaxCount == 5
\* Largest number of create_multiple_masks calls in a behaviour.
MaxMaskCalls == 2

(***************************************************************************)
(* Characters and Python string primitives.                                *)
(***************************************************************************)
Letters ==
  { "a","b","c","d","e","f","g","h","i","j","k","l","m",
    "n","o","p","q","r","s","t","u","v","w","x","y","z",
    "A","B","C","D","E","F","G","H","I","J","K","L","M",
    "N","O","P","Q","R","S","T","U","V","W","X","Y","Z" }

Digits == { "0","1","2","3","4","5","6","7","8","9" }

\* \w of the regular expressions
IsWordChar(c) == c \in Letters \cup Digits \cup {"_"}

\* characters removed by str.strip() / str.lstrip()
Whitespace == { " ", "\t", "\r", "\f" , "\n" }

Max2(a, b) == IF a >= b THEN a ELSE b

Min2(a, b) == IF a <= b THEN a ELSE b

\* s[a:b] for a, b >= 0 (Python clamps both ends to len(s))
Slice(s, a, b) ==
  LET lo == Min2(a, Len(s))
      hi == Min2(b, Len(s))
  IN  IF lo >= hi THEN << >> ELSE SubSeq(s, lo + 1, hi)

\* s[a:]
SliceFrom(s, a) == Slice(s, a, Len(s))

\* s[i:].startswith(p), compared character by character
HasAt(s, i, p) ==
  i + Len(p) <= Len(s) /\ \A k \in 1..Len(p) : s[i + k] = p[k]

\* s.startswith(p)
StartsWith(s, p) == HasAt(s, 0, p)

\* s.endswith(p)
EndsWith(s, p) == Len(p) <= Len(s) /\ HasAt(s, Len(s) - Len(p), p)

\* p in s
Contains(s, p) == \E i \in 0..(Len(s) - Len(p)) : HasAt(s, i, p)

\* number of leading whitespace characters of s from offset i on
RECURSIVE LeadingSpace(_, _)
LeadingSpace(s, i) ==
  IF i < Len(s) /\ s[i + 1] \in Whitespace THEN LeadingSpace(s, i + 1) ELSE i

\* offset just after the last non-whitespace character of s[:i]
RECURSIVE TrailingEnd(_, _)
TrailingEnd(s, i) ==
  IF i > 0 /\ s[i] \in Whitespace THEN TrailingEnd(s, i - 1) ELSE i

\* s.lstrip()
LStrip(s) == Slice(s, LeadingSpace(s, 0), Len(s))

\* s.rstrip()
RStrip(s) == Slice(s, 0, TrailingEnd(s, Len(s)))

\* a strip that removes nothing
StripNothing(s) == s

\* s.strip()
Strip(s) == RStrip(LStrip(s))

\* offset of the first '\n' of s at or after i, Len(s) if there is none
NextNewline(s, i) ==
  LET found == { j \in i..(Len(s) - 1) : s[j + 1] = "\n" }
  IN  IF found = { } THEN Len(s)
      ELSE CHOOSE j \in found : \A k \in found : j <= k

\* s[i:].split('\n')
RECURSIVE SplitFrom(_, _)
SplitFrom(s, i) ==
  LET j == NextNewline(s, i)
  IN  IF j = Len(s) THEN << Slice(s, i, j) >>
      ELSE << Slice(s, i, j) >> \o SplitFrom(s, j + 1)

\* s.split('\n')
SplitLines(s) == SplitFrom(s, 0)

\* a join that also terminates the last line with a newline
RECURSIVE JoinLinesTerminated(_)
JoinLinesTerminated(lines) ==
  IF Len(lines) = 0 THEN << >>
  ELSE lines[1] \o << "\n" >> \o JoinLinesTerminated(Tail(lines))

\* '\n'.join(lines)
RECURSIVE JoinLines(_)
JoinLines(lines) ==
  IF Len(lines) = 0 THEN << >>
  ELSE IF Len(lines) = 1 THEN lines[1]
  ELSE lines[1] \o << "\n" >> \o JoinLines(Tail(lines))

\* ch * n
Repeat(ch, n) == [ i \in 1..n |-> ch ]

DigitChar == << "0","1","2","3","4","5","6","7","8","9" >>

\* str(n) for n >= 0
RECURSIVE IntToStr(_)
IntToStr(n) ==
  IF n < 10 THEN << DigitChar[n + 1] >>
  ELSE IntToStr(n \div 10) \o << DigitChar[(n % 10) + 1] >>

(***************************************************************************)
(* Input source texts.                                                     *)
(***************************************************************************)
\* a run of PadLen spaces: filler inside a line, indentation in front of one
Pad == Repeat(" ", PadLen)

\* the pieces the input source texts are built from
Lexemes == << <<"i","f">>, <<"+","=">>, <<"p","a","s","s">>, Pad, <<"\n">>, <<"#">> >>

\* the source texts made of exactly n lexemes
RECURSIVE CodesOfLen(_)
CodesOfLen(n) ==
  IF n = 0 THEN { << >> }
  ELSE { c \o Lexemes[i] : c \in CodesOfLen(n - 1), i \in 1..Len(Lexemes) }

\* the example inputs of the specification's scenarios A, B, C and D
ScenarioA ==
  <<"i","f"," ","x"," ","=","="," ","1",":","\n"," "," "," "," ","r","e",
  "t","u","r","n"," ","x">>

ScenarioB ==
  <<"\n","\n","#"," ","j","u","s","t"," ","a"," ","c","o","m","m","e","n",
  "t","\n">>

\* a 15-line function with control-flow lines and ten distinct identifiers
ScenarioC ==
  <<"d","e","f"," ","s","u","m","m","a","r","i","z","e","(","i","t","e","m",
  "s",","," ","l","i","m","i","t",","," ","s","c","a","l","e",","," ","s",
  "t","e","p",")",":","\n"," "," "," "," ","c","o","u","n","t"," ","="," ",
  "0","\n"," "," "," "," ","t","o","t","a","l"," ","="," ","0","\n"," "," ",
  " "," ","f","o","r"," ","i","t","e","m"," ","i","n"," ","i","t","e","m",
  "s",":","\n"," "," "," "," "," "," "," "," ","i","f"," ","i","t","e","m",
  " ",">"," ","l","i","m","i","t",":","\n"," "," "," "," "," "," "," "," ",
  " "," "," "," ","c","o","n","t","i","n","u","e","\n"," "," "," "," "," ",
  " "," "," ","v","a","l","u","e"," ","="," ","i","t","e","m"," ","*"," ",
  "s","c","a","l","e","\n"," "," "," "," "," "," "," "," ","w","h","i","l",
  "e"," ","v","a","l","u","e"," ",">"," ","l","i","m","i","t",":","\n"," ",
  " "," "," "," "," "," "," "," "," "," "," ","v","a","l","u","e"," ","=",
  " ","v","a","l","u","e"," ","-"," ","s","t","e","p","\n"," "," "," "," ",
  " "," "," "," ","t","o","t","a","l"," ","="," ","t","o","t","a","l"," ",
  "+"," ","v","a","l","u","e","\n"," "," "," "," "," "," "," "," ","c","o",
  "u","n","t"," ","+","="," ","1","\n"," "," "," "," ","i","f"," ","c","o",
  "u","n","t"," ","=","="," ","0",":","\n"," "," "," "," "," "," "," "," ",
  "r","e","t","u","r","n"," ","0","\n"," "," "," "," ","m","e","a","n"," ",
  "="," ","t","o","t","a","l"," ","/"," ","c","o","u","n","t","\n"," "," ",
  " "," ","r","e","t","u","r","n"," ","m","e","a","n">>

ScenarioD ==
  <<"c","o","u","n","t"," ","="," ","0","\n","f","o","r"," ","i"," ","i",
  "n"," ","r","a","n","g","e","(","1","0",")",":","\n"," "," "," "," ","c",
  "o","u","n","t"," ","+","="," ","i">>

\* a block whose body is indented with a tab
TabIndented ==
  <<"i","f"," ","x",":","\n","\t","r","e","t","u","r","n"," ","x">>

\* a line that calls a built-in type and a listed method
TypeAndMethod ==
  <<"s"," ","="," ","s","t","r","(","l","e","n","(","x",")",")"," ","-"," ","1">>

\* a loop whose variable is the throwaway name "_"
UnderscoreLoop ==
  <<"f","o","r"," ","_"," ","i","n"," ","x",":">>

\* two statements that change a list in place
ListCalls ==
  <<"i","t","e","m","s",".","s","o","r","t","(",")","\n","i","t","e","m","s",".","p","o","p","(",")">>

Codes ==
  UNION { CodesOfLen(n) : n \in 0..MaxLexemes }
    \cup { ScenarioA, ScenarioB, ScenarioC, ScenarioD, TabIndented,
           TypeAndMethod, UnderscoreLoop, ListCalls }

(***************************************************************************)
(* Token analysis: CodeMasker.analyze_code_tokens                          *)
(***************************************************************************)
KeywordAlts ==
  << <<"i","f">>,
     <<"e","l","s","e">>,
     <<"e","l","i","f">>,
     <<"f","o","r">>,
     <<"w","h","i","l","e">>,
     <<"r","e","t","u","r","n">>,
     <<"d","e","f">>,
     <<"c","l","a","s","s">>,
     <<"t","r","y">>,
     <<"e","x","c","e","p","t">>,
     <<"w","i","t","h">>,
     <<"i","m","p","o","r","t">>,
     <<"f","r","o","m">>,
     <<"a","s">>,
     <<"i","n">>,
     <<"n","o","t">>,
     <<"a","n","d">>,
     <<"o","r">>,
     <<"i","s">>,
     <<"N","o","n","e">>,
     <<"T","r","u","e">>,
     <<"F","a","l","s","e">>,
     <<"b","r","e","a","k">>,
     <<"c","o","n","t","i","n","u","e">> >>

DataStructureAlts ==
  << <<"l","i","s","t">>,
     <<"d","i","c","t">>,
     <<"s","e","t">>,
     <<"t","u","p","l","e">>,
     <<"s","t","r">>,
     <<"i","n","t">>,
     <<"f","l","o","a","t">>,
     <<"b","o","o","l">> >>

MethodAlts ==
  << <<"a","p","p","e","n","d">>,
     <<"p","o","p">>,
     <<"i","n","s","e","r","t">>,
     <<"r","e","m","o","v","e">>,
     <<"s","o","r","t">>,
     <<"r","e","v","e","r","s","e">>,
     <<"g","e","t">>,
     <<"k","e","y","s">>,
     <<"v","a","l","u","e","s">>,
     <<"i","t","e","m","s">>,
     <<"a","d","d">>,
     <<"u","p","d","a","t","e">>,
     <<"s","p","l","i","t">>,
     <<"j","o","i","n">>,
     <<"r","e","p","l","a","c","e">>,
     <<"s","t","r","i","p">>,
     <<"l","o","w","e","r">>,
     <<"u","p","p","e","r">>,
     <<"l","e","n">>,
     <<"r","a","n","g","e">>,
     <<"e","n","u","m","e","r","a","t","e">>,
     <<"z","i","p">>,
     <<"m","a","p">>,
     <<"f","i","l","t","e","r">> >>

OperatorAlts ==
  << <<"=","=">>,
     <<"!","=">>,
     <<"<","=">>,
     <<">","=">>,
     <<"<">>,
     <<">">>,
     <<"+","=">>,
     <<"-","=">>,
     <<"*","=">>,
     <<"/","=">> >>

ArithmeticChars == { "+", "-", "*", "/" }

\* the patterns with the identifier pass moved to the front
IdentifiersFirst ==
  << [ kind |-> "identifier", alts |-> << >>,
       category |-> "variable",       importance |-> 3 ],
     [ kind |-> "words",      alts |-> KeywordAlts,
       category |-> "keyword",        importance |-> 10 ],
     [ kind |-> "words",      alts |-> DataStructureAlts,
       category |-> "data_structure", importance |-> 8 ],
     [ kind |-> "words",      alts |-> MethodAlts,
       category |-> "method",         importance |-> 7 ],
     [ kind |-> "literals",   alts |-> OperatorAlts,
       category |-> "operator",       importance |-> 6 ],
     [ kind |-> "number",     alts |-> << >>,
       category |-> "number",         importance |-> 4 ],
     [ kind |-> "charclass",  alts |-> << >>,
       category |-> "arithmetic",     importance |-> 5 ] >>

\* the ordered list of (pattern, category, importance) triples
token_patterns ==
  << [ kind |-> "words",      alts |-> KeywordAlts,
       category |-> "keyword",        importance |-> 10 ],
     [ kind |-> "words",      alts |-> DataStructureAlts,
       category |-> "data_structure", importance |-> 8 ],
     [ kind |-> "words",      alts |-> MethodAlts,
       category |-> "method",         importance |-> 7 ],
     [ kind |-> "literals",   alts |-> OperatorAlts,
       category |-> "operator",       importance |-> 6 ],
     [ kind |-> "identifier", alts |-> << >>,
       category |-> "variable",       importance |-> 3 ],
     [ kind |-> "number",     alts |-> << >>,
       category |-> "number",         importance |-> 4 ],
     [ kind |-> "charclass",  alts |-> << >>,
       category |-> "arithmetic",     importance |-> 5 ] >>

\* \b at offset i of code
IsBoundary(code, i) ==
  LET before == i > 0 /\ IsWordChar(code[i])
      after  == i < Len(code) /\ IsWordChar(code[i + 1])
  IN  before # after

\* end of the greedy run of characters satisfying IsWordChar / digit from i
RECURSIVE RunEnd(_, _, _)
RunEnd(code, i, digitsOnly) ==
  IF i < Len(code)
     /\ (IF digitsOnly THEN code[i + 1] \in Digits ELSE IsWordChar(code[i + 1]))
  THEN RunEnd(code, i + 1, digitsOnly)
  ELSE i

\* end offset of the first alternative from the j-th on that matches at i,
\* or -1
AltEnd(alts, j, code, i, bounded) ==
  LET matching == { k \in j..Len(alts) :
                      /\ HasAt(code, i, alts[k])
                      /\ bounded => IsBoundary(code, i + Len(alts[k])) }
  IN  IF matching = { } THEN -1
      ELSE i + Len(alts[CHOOSE k \in matching : \A m \in matching : k <= m])

\* re.match of pattern pat at offset i: the end offset of the match, or -1
MatchEnd(pat, code, i) ==
  CASE pat.kind = "words" ->
         IF IsBoundary(code, i) THEN AltEnd(pat.alts, 1, code, i, TRUE) ELSE -1
    [] pat.kind = "literals" -> AltEnd(pat.alts, 1, code, i, FALSE)
    [] pat.kind = "identifier" ->
         IF /\ IsBoundary(code, i)
            /\ i < Len(code)
            /\ code[i + 1] \in Letters \cup {"_"}
         THEN RunEnd(code, i + 1, FALSE)
         ELSE -1
    [] pat.kind = "number" ->
         IF /\ IsBoundary(code, i)
            /\ i < Len(code)
            /\ code[i + 1] \in Digits
            /\ IsBoundary(code, RunEnd(code, i, TRUE))
         THEN RunEnd(code, i, TRUE)
         ELSE -1
    [] pat.kind = "charclass" ->
         IF i < Len(code) /\ code[i + 1] \in ArithmeticChars
         THEN i + 1
         ELSE -1

\* CodeMasker._generate_hint
_generate_hint(token, category) ==
  LET n == Len(token)
      comparison == { <<"=","=">>, <<"!","=">>, <<"<","=">>, <<">","=">>, <<"<">>, <<">">> }
  IN  IF category = "keyword" /\ n > 2
      THEN << token[1] >> \o Repeat("_", n - 1)
      ELSE IF category = "method" /\ n > 3
      THEN SubSeq(token, 1, 2) \o Repeat("_", n - 2)
      ELSE IF category = "operator"
      THEN IF token \in comparison
           THEN Repeat("_", n) \o <<" ","(","c","o","m","p","a","r","i","s","o","n",")">>
           ELSE Repeat("_", n) \o <<" ","(","a","r","i","t","h","m","e","t","i","c",")">>
      ELSE IF category = "data_structure"
      THEN << token[1] >> \o Repeat("_", n - 1) \o <<" ","(","t","y","p","e",")">>
      ELSE IF category = "variable" /\ n > 1
      THEN << token[1] >> \o Repeat("_", Min2(n - 1, 3))
      ELSE IF category = "number"
      THEN Repeat("_", n) \o <<" ","(","n","u","m","b","e","r",")">>
      ELSE Repeat("_", n)

\* the token dictionary built for one match of one pattern
TokenOf(pat, code, s, e) ==
  [ start      |-> s,
    end        |-> e,
    token      |-> Slice(code, s, e),
    category   |-> pat.category,
    importance |-> pat.importance,
    hint       |-> _generate_hint(Slice(code, s, e), pat.category) ]

\* the scan of re.finditer over the offsets starts (ascending) at which the
\* pattern matches, resumed at offset pos: a match is reported when it starts
\* at or after pos, and the scan resumes at its end.  The offsets are
\* handled left half first, then right half from where the left half ended.
RECURSIVE FindIterFrom(_, _, _, _)
FindIterFrom(pat, code, starts, pos) ==
  IF starts = << >> THEN [ matches |-> << >>, pos |-> pos ]
  ELSE IF Len(starts) = 1
  THEN IF starts[1] >= pos
       THEN LET e == MatchEnd(pat, code, starts[1])
            IN  [ matches |-> << TokenOf(pat, code, starts[1], e) >>,
                  pos     |-> e ]
       ELSE [ matches |-> << >>, pos |-> pos ]
  ELSE LET h     == Len(starts) \div 2
           left  == FindIterFrom(pat, code, SubSeq(starts, 1, h), pos)
           right == FindIterFrom(pat, code, SubSeq(starts, h + 1, Len(starts)),
                                 left.pos)
       IN  [ matches |-> left.matches \o right.matches, pos |-> right.pos ]

\* re.finditer(pattern, code): the non-overlapping matches in scan order
FindIter(pat, code) ==
  FindIterFrom(pat, code,
               SelectSeq([ i \in 1..Len(code) |-> i - 1 ],
                         LAMBDA p : MatchEnd(pat, code, p) # -1),
               0).matches

\* the matches of patterns k.. pooled in pattern order
RECURSIVE PooledMatches(_, _)
PooledMatches(code, k) ==
  IF k > Len(token_patterns) THEN << >>
  ELSE FindIter(token_patterns[k], code) \o PooledMatches(code, k + 1)

\* the list left in the order it was built
KeepOrder(ts) == ts

\* ts, whose starts lie in lo..hi, in ascending order of start; entries with
\* equal starts keep their order
RECURSIVE SortStartsIn(_, _, _)
SortStartsIn(ts, lo, hi) ==
  IF Len(ts) <= 1 \/ lo >= hi THEN ts
  ELSE LET mid == (lo + hi) \div 2
       IN  SortStartsIn(SelectSeq(ts, LAMBDA t : t.start <= mid), lo, mid)
             \o SortStartsIn(SelectSeq(ts, LAMBDA t : t.start > mid),
                             mid + 1, hi)

\* list.sort(key=lambda x: x['start']) : stable, ascending
SortByStart(ts) ==
  LET starts == { ts[i].start : i \in 1..Len(ts) }
  IN  IF starts = { } THEN ts
      ELSE SortStartsIn(ts, 0, CHOOSE m \in starts : \A n \in starts : n <= m)

\* a sweep test that keeps every match
KeepEveryToken(token, last_end) == TRUE

\* if token['start'] >= last_end
KeepToken(token, last_end) == token.start >= last_end

\* the sweep that removes overlaps, entered with the running last_end: a
\* token is kept iff its start >= last_end, and last_end becomes its end.
\* The tokens are handled left half first, then right half with the last_end
\* the left half ended with.
RECURSIVE FilterOverlaps(_, _)
FilterOverlaps(ts, last_end) ==
  IF ts = << >> THEN [ filtered_tokens |-> << >>, last_end |-> last_end ]
  ELSE IF Len(ts) = 1
  THEN IF KeepToken(ts[1], last_end)
       THEN [ filtered_tokens |-> ts, last_end |-> ts[1].end ]
       ELSE [ filtered_tokens |-> << >>, last_end |-> last_end ]
  ELSE LET h     == Len(ts) \div 2
           left  == FilterOverlaps(SubSeq(ts, 1, h), last_end)
           right == FilterOverlaps(SubSeq(ts, h + 1, Len(ts)), left.last_end)
       IN  [ filtered_tokens |-> left.filtered_tokens \o right.filtered_tokens,
             last_end        |-> right.last_end ]

\* CodeMasker.analyze_code_tokens
analyze_code_tokens(code) ==
  FilterOverlaps(SortByStart(PooledMatches(code, 1)), 0).filtered_tokens

(***************************************************************************)
(* Line analysis: CodeMasker.analyze_code_lines                            *)
(***************************************************************************)
\* any(p in line for p in ps)
ContainsAny(line, ps) == \E p \in ps : Contains(line, p)

\* the rating of _get_line_importance for the line after line.strip()
ImportanceOf(line) ==
  IF ContainsAny(line, { <<"r","e","t","u","r","n">>, <<"i","f">>, <<"w","h","i","l","e">>, <<"f","o","r">> })
  THEN 9
  ELSE IF ContainsAny(line, { <<"e","l","s","e",":">>, <<"e","l","i","f">> })
  THEN 8
  ELSE IF EndsWith(line, <<":">>)
          /\ (Contains(line, <<"d","e","f"," ">>) \/ Contains(line, <<"c","l","a","s","s"," ">>))
  THEN 7
  ELSE IF Contains(line, <<"=">>) /\ ~StartsWith(line, <<"d","e","f"," ">>)
  THEN IF ContainsAny(line, { <<"+","=">>, <<"-","=">>, <<"*","=">>, <<"/","=">> })
       THEN 7
       ELSE 6
  ELSE IF ContainsAny(line, { <<".","a","p","p","e","n","d">>, <<".","p","o","p">>, <<".","i","n","s","e","r","t">>, <<".","r","e","m","o","v","e">> })
  THEN 7
  ELSE IF Contains(line, <<"i","m","p","o","r","t">>) \/ Contains(line, <<"f","r","o","m">>)
  THEN 3
  ELSE IF Strip(line) = <<"p","a","s","s">>
  THEN 2
  ELSE 5

\* CodeMasker._get_line_importance
_get_line_importance(stripped) == ImportanceOf(Strip(stripped))

\* the category of _categorize_line for the line after line.strip()
CategoryOf(line) ==
  IF StartsWith(line, <<"d","e","f"," ">>) \/ StartsWith(line, <<"c","l","a","s","s"," ">>)
  THEN "definition"
  ELSE IF StartsWith(line, <<"i","f"," ">>) \/ StartsWith(line, <<"e","l","i","f"," ">>)
  THEN "conditional"
  ELSE IF StartsWith(line, <<"e","l","s","e",":">>)
  THEN "else_clause"
  ELSE IF StartsWith(line, <<"f","o","r"," ">>) \/ StartsWith(line, <<"w","h","i","l","e"," ">>)
  THEN "loop"
  ELSE IF StartsWith(line, <<"r","e","t","u","r","n"," ">>)
  THEN "return_statement"
  ELSE IF Contains(line, <<"=">>)
          /\ ~ContainsAny(line, { <<"=","=">>, <<"!","=">>, <<"<","=">>, <<">","=">> })
  THEN "assignment"
  ELSE IF ContainsAny(line,
            { <<".","a","p","p","e","n","d">>, <<".","p","o","p">>, <<".","i","n","s","e","r","t">>, <<".","r","e","m","o","v","e">>, <<".","s","o","r","t">> })
  THEN "data_operation"
  ELSE IF Contains(line, <<"i","m","p","o","r","t">>) \/ Contains(line, <<"f","r","o","m">>)
  THEN "import"
  ELSE "logic"

\* CodeMasker._categorize_line
_categorize_line(stripped) == CategoryOf(Strip(stripped))

LineCategories ==
  { "conditional", "else_clause", "loop", "return_statement", "assignment",
    "data_operation", "definition", "import", "logic" }

\* the text of a category name, as formatted into a placeholder
CategoryText(category) ==
  CASE category = "conditional"      -> <<"c","o","n","d","i","t","i","o","n","a","l">>
    [] category = "else_clause"      -> <<"e","l","s","e","_","c","l","a","u","s","e">>
    [] category = "loop"             -> <<"l","o","o","p">>
    [] category = "return_statement" -> <<"r","e","t","u","r","n","_","s","t","a","t","e","m","e","n","t">>
    [] category = "assignment"       -> <<"a","s","s","i","g","n","m","e","n","t">>
    [] category = "data_operation"   -> <<"d","a","t","a","_","o","p","e","r","a","t","i","o","n">>
    [] category = "definition"       -> <<"d","e","f","i","n","i","t","i","o","n">>
    [] category = "import"           -> <<"i","m","p","o","r","t">>
    [] category = "logic"            -> <<"l","o","g","i","c">>

\* CodeMasker._explain_line_purpose
_explain_line_purpose(line, category) ==
  CASE category = "conditional" ->
         <<"T","h","i","s"," ","l","i","n","e"," ","c","h","e","c","k","s"," ","a"," ","c","o","n","d","i","t","i","o","n"," ","a","n","d"," ","b","r","a","n","c","h","e","s"," ","t","h","e"," ","c","o","d","e"," ","e","x","e","c","u","t","i","o","n">>
    [] category = "else_clause" ->
         <<"T","h","i","s"," ","h","a","n","d","l","e","s"," ","t","h","e"," ","a","l","t","e","r","n","a","t","i","v","e"," ","c","a","s","e"," ","w","h","e","n"," ","t","h","e"," ","c","o","n","d","i","t","i","o","n"," ","i","s"," ","f","a","l","s","e">>
    [] category = "loop" ->
         <<"T","h","i","s"," ","l","i","n","e"," ","c","r","e","a","t","e","s"," ","a"," ","l","o","o","p"," ","t","o"," ","i","t","e","r","a","t","e"," ","t","h","r","o","u","g","h"," ","d","a","t","a"," ","o","r"," ","r","e","p","e","a","t"," ","o","p","e","r","a","t","i","o","n","s">>
    [] category = "return_statement" ->
         <<"T","h","i","s"," ","l","i","n","e"," ","r","e","t","u","r","n","s"," ","a"," ","v","a","l","u","e"," ","f","r","o","m"," ","t","h","e"," ","f","u","n","c","t","i","o","n">>
    [] category = "assignment" ->
         <<"T","h","i","s"," ","l","i","n","e"," ","a","s","s","i","g","n","s"," ","a"," ","v","a","l","u","e"," ","t","o"," ","a"," ","v","a","r","i","a","b","l","e">>
    [] category = "data_operation" ->
         <<"T","h","i","s"," ","l","i","n","e"," ","p","e","r","f","o","r","m","s"," ","a","n"," ","o","p","e","r","a","t","i","o","n"," ","o","n"," ","a"," ","d","a","t","a"," ","s","t","r","u","c","t","u","r","e">>
    [] category = "definition" ->
         <<"T","h","i","s"," ","l","i","n","e"," ","d","e","f","i","n","e","s"," ","a"," ","f","u","n","c","t","i","o","n"," ","o","r"," ","c","l","a","s","s">>
    [] category = "import" ->
         <<"T","h","i","s"," ","l","i","n","e"," ","i","m","p","o","r","t","s"," ","m","o","d","u","l","e","s"," ","o","r"," ","f","u","n","c","t","i","o","n","s">>
    [] category = "logic" ->
         <<"T","h","i","s"," ","l","i","n","e"," ","c","o","n","t","a","i","n","s"," ","c","o","r","e"," ","a","l","g","o","r","i","t","h","m"," ","l","o","g","i","c">>
    [] OTHER ->
         <<"T","h","i","s"," ","l","i","n","e"," ","p","e","r","f","o","r","m","s"," ","a","n"," ","i","m","p","o","r","t","a","n","t"," ","o","p","e","r","a","t","i","o","n">>

\* CodeMasker._generate_line_hint
_generate_line_hint(line, category) ==
  CASE category = "conditional" ->
         <<"C","o","n","t","r","o","l"," ","f","l","o","w",":"," ","C","h","e","c","k"," ","a"," ","c","o","n","d","i","t","i","o","n"," ","w","i","t","h"," ","i","f","/","e","l","i","f">>
    [] category = "else_clause" ->
         <<"A","l","t","e","r","n","a","t","i","v","e"," ","b","r","a","n","c","h",":"," ","H","a","n","d","l","e"," ","t","h","e"," ","e","l","s","e"," ","c","a","s","e">>
    [] category = "loop" ->
         <<"I","t","e","r","a","t","i","o","n",":"," ","U","s","e"," ","f","o","r","/","w","h","i","l","e"," ","t","o"," ","r","e","p","e","a","t"," ","o","p","e","r","a","t","i","o","n","s">>
    [] category = "return_statement" ->
         <<"F","u","n","c","t","i","o","n"," ","o","u","t","p","u","t",":"," ","R","e","t","u","r","n"," ","t","h","e"," ","r","e","s","u","l","t">>
    [] category = "assignment" ->
         <<"V","a","r","i","a","b","l","e"," ","a","s","s","i","g","n","m","e","n","t",":"," ","S","t","o","r","e"," ","a"," ","v","a","l","u","e">>
    [] category = "data_operation" ->
         <<"D","a","t","a"," ","m","a","n","i","p","u","l","a","t","i","o","n",":"," ","M","o","d","i","f","y"," ","t","h","e"," ","d","a","t","a"," ","s","t","r","u","c","t","u","r","e">>
    [] category = "definition" ->
         <<"F","u","n","c","t","i","o","n","/","C","l","a","s","s"," ","d","e","f","i","n","i","t","i","o","n">>
    [] category = "import" ->
         <<"I","m","p","o","r","t"," ","s","t","a","t","e","m","e","n","t">>
    [] category = "logic" ->
         <<"C","o","r","e"," ","a","l","g","o","r","i","t","h","m"," ","l","o","g","i","c">>
    [] OTHER ->
         <<"I","m","p","o","r","t","a","n","t"," ","c","o","d","e"," ","l","i","n","e">>

\* the dictionary analyze_code_lines appends for a line
LineInfo(i, line, stripped, category) ==
  [ line_number |-> i,
    content     |-> line,
    stripped    |-> stripped,
    category    |-> category,
    importance  |-> _get_line_importance(stripped),
    explanation |-> _explain_line_purpose(stripped, category) ]

\* the body of the loop of analyze_code_lines for a line that is kept
AnalyzeLine(i, line, stripped) ==
  LineInfo(i, line, stripped, _categorize_line(stripped))

\* the entry analyze_code_lines appends for line i (0-based) of lines
LineInfoOf(lines, i) == AnalyzeLine(i, lines[i + 1], Strip(lines[i + 1]))

\* the loop of analyze_code_lines from line i on
RECURSIVE LineInfosFrom(_, _)
LineInfosFrom(lines, i) ==
  IF i >= Len(lines) THEN << >>
  ELSE LET stripped == Strip(lines[i + 1])
       IN  IF stripped = << >> \/ StartsWith(stripped, <<"#">>)
           THEN LineInfosFrom(lines, i + 1)
           ELSE << LineInfoOf(lines, i) >> \o LineInfosFrom(lines, i + 1)

\* CodeMasker.analyze_code_lines
analyze_code_lines(code) == LineInfosFrom(SplitLines(code), 0)

\* analyze_code_tokens and analyze_code_lines are pure functions of the text:
\* their values on the input texts, tabulated once (@@ builds the table)
TokenAnalysis == [ c \in Codes |-> analyze_code_tokens(c) ] @@ << >>

LineAnalysis == [ c \in Codes |-> analyze_code_lines(c) ] @@ << >>

(***************************************************************************)
(* The process-global pseudo random generator (module random).             *)
(* Its state is a number below RngMod; every draw advances it.             *)
(***************************************************************************)
\* the state reached from r by one draw
RngNext(r) == (r * 5 + 3) % RngMod

\* random.seed(a)
RngSeed(a) == a % RngMod

\* the value a draw in state r yields for the range 0..m-1
RandBelow(r, m) == r % m

\* the selection loop of random.sample: k draws without replacement from pool
RECURSIVE SampleLoop(_, _, _, _, _)
SampleLoop(pool, i, k, r, acc) ==
  IF i = k THEN [ out |-> acc, rng |-> r, raised |-> FALSE ]
  ELSE LET n == Len(pool)
           j == RandBelow(r, n - i)
       IN  SampleLoop([ pool EXCEPT ![j + 1] = pool[n - i] ],
                      i + 1, k, RngNext(r), Append(acc, pool[j + 1]))

\* random.sample(population, k) in generator state r; it raises ValueError
\* when k is negative or larger than the population
Sample(population, k, r) ==
  IF k < 0 \/ k > Len(population)
  THEN [ out |-> << >>, rng |-> r, raised |-> TRUE ]
  ELSE SampleLoop(population, 0, k, r, << >>)

(***************************************************************************)
(* Blank selection and masked text construction.                           *)
(***************************************************************************)
\* CodeMasker.get_blank_count_for_difficulty
get_blank_count_for_difficulty(difficulty, max_possible) ==
  IF difficulty = "easy" THEN Min2(1, max_possible)
  ELSE IF difficulty = "medium" THEN Min2(3, max_possible)
  ELSE Min2(5, max_possible)

\* [x for x in xs if x['importance'] >= 8]
HighBand(xs) == SelectSeq(xs, LAMBDA x : x.importance >= 8)

\* [x for x in xs if 5 <= x['importance'] < 8]
MediumBand(xs) == SelectSeq(xs, LAMBDA x : 5 <= x.importance /\ x.importance < 8)

\* [x for x in xs if x['importance'] < 5]
LowBand(xs) == SelectSeq(xs, LAMBDA x : x.importance < 5)

\* the selected lines left in the order they were drawn
KeepDrawOrder(ls) == ls

\* list.sort(key=lambda x: x['line_number']) : stable, ascending
RECURSIVE SortByLineNumber(_)
SortByLineNumber(ls) ==
  IF Len(ls) <= 1 THEN ls
  ELSE LET rest == SortByLineNumber(SubSeq(ls, 1, Len(ls) - 1))
           l    == ls[Len(ls)]
           k    == Cardinality({ i \in 1..Len(rest) :
                                   rest[i].line_number <= l.line_number })
       IN  SubSeq(rest, 1, k) \o << l >> \o SubSeq(rest, k + 1, Len(rest))

\* f"___[{blank_id}]"
TokenPlaceholder(blank_id) == <<"_","_","_","[">> \o IntToStr(blank_id) \o <<"]">>

\* ' ' * indent + f"# ___[{blank_id}] - {category} line missing here"
LinePlaceholder(original_line, blank_id, category) ==
  LET indent == Len(original_line) - Len(LStrip(original_line))
  IN  Repeat(" ", indent) \o <<"#"," ","_","_","_","[">> \o IntToStr(blank_id) \o <<"]"," ","-"," ">>
        \o CategoryText(category) \o <<" ","l","i","n","e"," ","m","i","s","s","i","n","g"," ","h","e","r","e">>

\* the BlankInfo built for a selected line
LineBlank(lines, line_info, blank_id) ==
  LET line_num      == line_info.line_number
      original_line == lines[line_num + 1]
  IN  [ position       |-> 0,
        length         |-> Len(original_line),
        token          |-> Strip(original_line),
        hint           |-> _generate_line_hint(line_info.stripped,
                                               line_info.category),
        category       |-> line_info.category,
        blank_id       |-> blank_id,
        is_line        |-> TRUE,
        line_number    |-> line_num,
        context_before |-> IF line_num > 0
                           THEN Strip(lines[line_num]) ELSE << >>,
        context_after  |-> IF line_num < Len(lines) - 1
                           THEN Strip(lines[line_num + 2]) ELSE << >>,
        explanation    |-> line_info.explanation ]

\* a token BlankInfo placed at the token's offset in the original code
TokenBlankAtOriginal(token, start_pos, blank_id) ==
  [ position       |-> token.start,
    length         |-> Len(TokenPlaceholder(blank_id)),
    token          |-> token.token,
    hint           |-> token.hint,
    category       |-> token.category,
    blank_id       |-> blank_id,
    is_line        |-> FALSE,
    line_number    |-> 0,
    context_before |-> << >>,
    context_after  |-> << >>,
    explanation    |-> << >> ]

\* a token BlankInfo numbered one past the running blank_id
TokenBlankNumberedAhead(token, start_pos, blank_id) ==
  [ position       |-> start_pos,
    length         |-> Len(TokenPlaceholder(blank_id)),
    token          |-> token.token,
    hint           |-> token.hint,
    category       |-> token.category,
    blank_id       |-> blank_id + 1,
    is_line        |-> FALSE,
    line_number    |-> 0,
    context_before |-> << >>,
    context_after  |-> << >>,
    explanation    |-> << >> ]

\* the BlankInfo built for a selected token spliced at start_pos
TokenBlank(token, start_pos, blank_id) ==
  [ position       |-> start_pos,
    length         |-> Len(TokenPlaceholder(blank_id)),
    token          |-> token.token,
    hint           |-> token.hint,
    category       |-> token.category,
    blank_id       |-> blank_id,
    is_line        |-> FALSE,
    line_number    |-> 0,
    context_before |-> << >>,
    context_after  |-> << >>,
    explanation    |-> << >> ]

\* the loop over selected_lines: st = [lines, blanks, answers, blank_id]
RECURSIVE MaskLines(_, _)
MaskLines(selected_lines, st) ==
  IF selected_lines = << >> THEN st
  ELSE LET line_info == Head(selected_lines)
           blank     == LineBlank(st.lines, line_info, st.blank_id)
           original  == st.lines[line_info.line_number + 1]
       IN  MaskLines(Tail(selected_lines),
             [ lines    |-> [ st.lines EXCEPT ![line_info.line_number + 1] =
                                LinePlaceholder(original, st.blank_id,
                                                line_info.category) ],
               blanks   |-> Append(st.blanks, blank),
               answers  |-> Append(st.answers, Strip(original)),
               blank_id |-> st.blank_id + 1 ])

\* the selection so far: the entries drawn, the generator state, the
\* blanks still to be placed (remaining_blanks), the draws made (size of the
\* band, count asked for, blanks remaining before the draw), and whether a
\* draw raised
NoSelection(max_blanks, r) ==
  [ out |-> << >>, rng |-> r, remaining |-> max_blanks,
    draws |-> << >>, raised |-> FALSE ]

\* selected.extend(s); remaining_blanks -= count
ExtendSelection(sel, band, count, s) ==
  [ out       |-> sel.out \o s.out,
    rng       |-> s.rng,
    remaining |-> sel.remaining - count,
    draws     |-> Append(sel.draws, [ size      |-> Len(band),
                                      count     |-> count,
                                      remaining |-> sel.remaining ]),
    raised    |-> s.raised ]

\* selected.extend(random.sample(band, count)); nothing more is drawn once
\* a draw has raised
DrawBand(band, count, sel) ==
  IF sel.raised THEN sel
  ELSE ExtendSelection(sel, band, count, Sample(band, count, sel.rng))

\* a high importance draw that takes nothing
HighCountZero(band, remaining) == 0

\* if band and remaining > 0: count = min(len(band), max(1, remaining // 2))
HighCount(band, remaining) ==
  IF band # << >> /\ remaining > 0
  THEN Min2(Len(band), Max2(1, remaining \div 2))
  ELSE 0

\* a count that is not capped by the size of the band
RestCountUncapped(band, remaining) ==
  IF band # << >> /\ remaining > 0 THEN remaining ELSE 0

\* if band and remaining > 0: count = min(len(band), remaining)
RestCount(band, remaining) ==
  IF band # << >> /\ remaining > 0 THEN Min2(Len(band), remaining) ELSE 0

\* the draw that takes up to half of the remaining blanks, at least one
DrawHigh(band, sel) == DrawBand(band, HighCount(band, sel.remaining), sel)

\* a draw that takes up to all of the remaining blanks
DrawRest(band, sel) == DrawBand(band, RestCount(band, sel.remaining), sel)

\* a line selection that goes on to the low importance lines
SelectLinesAllBands(lines_info, max_blanks, r) ==
  DrawRest(LowBand(lines_info),
           DrawRest(MediumBand(lines_info),
                    DrawHigh(HighBand(lines_info),
                             NoSelection(max_blanks, r))))

\* the two draws of line mode: high, then medium importance
SelectLines(lines_info, max_blanks, r) ==
  DrawRest(MediumBand(lines_info),
           DrawHigh(HighBand(lines_info), NoSelection(max_blanks, r)))

\* the MaskedCode of line mode, with the locals it was built from
LineModeResult(difficulty, sel, selected_lines, st) ==
  [ result |-> [ masked_code  |-> JoinLines(st.lines),
                 blanks       |-> st.blanks,
                 answers      |-> st.answers,
                 difficulty   |-> difficulty,
                 masking_mode |-> "line" ],
    rng    |-> sel.rng,
    draws  |-> sel.draws,
    raised |-> sel.raised,
    selected_lines  |-> selected_lines,
    selected_tokens |-> << >>,
    emitted_tokens  |-> << >> ]

\* _create_line_masked_code from the sort of the selected lines on
LineModeMask(code, difficulty, sel, selected_lines) ==
  LineModeResult(difficulty, sel, selected_lines,
                 MaskLines(selected_lines,
                           [ lines |-> SplitLines(code), blanks |-> << >>,
                             answers |-> << >>, blank_id |-> 1 ]))

\* _create_line_masked_code once the lines are selected
LineModeSelected(code, difficulty, sel) ==
  LineModeMask(code, difficulty, sel, SortByLineNumber(sel.out))

\* _create_line_masked_code once the lines are analyzed
LineModeFrom(code, difficulty, r, lines_info) ==
  LineModeSelected(code, difficulty,
    SelectLines(lines_info,
                get_blank_count_for_difficulty(difficulty, Len(lines_info)),
                r))

\* CodeMasker._create_line_masked_code in generator state r
_create_line_masked_code(code, difficulty, r) ==
  LineModeFrom(code, difficulty, r, LineAnalysis[code])

\* an offset update that forgets the length of the replaced token
NextOffsetGrowOnly(offset, placeholder, token) == offset + Len(placeholder)

\* offset += len(blank_placeholder) - (token['end'] - token['start'])
NextOffset(offset, placeholder, token) ==
  offset + Len(placeholder) - (token.end - token.start)

\* the loop over selected_tokens of token mode:
\* st = [masked_code, blanks, answers, offset, blank_id]; emitted lists the
\* tokens spliced so far
RECURSIVE MaskTokens(_, _)
MaskTokens(selected_tokens, st) ==
  IF selected_tokens = << >> THEN st
  ELSE LET token       == Head(selected_tokens)
           placeholder == TokenPlaceholder(st.blank_id)
           start_pos   == token.start + st.offset
           end_pos     == token.end + st.offset
       IN  MaskTokens(Tail(selected_tokens),
             [ masked_code |-> Slice(st.masked_code, 0, start_pos)
                                 \o placeholder
                                 \o SliceFrom(st.masked_code, end_pos),
               blanks      |-> Append(st.blanks,
                                 TokenBlank(token, start_pos, st.blank_id)),
               answers     |-> Append(st.answers, token.token),
               offset      |-> NextOffset(st.offset, placeholder, token),
               blank_id    |-> st.blank_id + 1,
               emitted     |-> Append(st.emitted, token) ])

\* the three draws of token mode: high, then medium, then low importance
SelectTokens(tokens, max_blanks, r) ==
  DrawRest(LowBand(tokens),
           DrawRest(MediumBand(tokens),
                    DrawHigh(HighBand(tokens), NoSelection(max_blanks, r))))

\* the MaskedCode of token mode, with the locals it was built from
TokenModeResult(difficulty, sel, selected_tokens, st) ==
  [ result |-> [ masked_code  |-> st.masked_code,
                 blanks       |-> st.blanks,
                 answers      |-> st.answers,
                 difficulty   |-> difficulty,
                 masking_mode |-> "token" ],
    rng    |-> sel.rng,
    draws  |-> sel.draws,
    raised |-> sel.raised,
    selected_lines  |-> << >>,
    selected_tokens |-> selected_tokens,
    emitted_tokens  |-> st.emitted ]

\* _create_token_masked_code from the sort of the selected tokens on
TokenModeMask(code, difficulty, sel, selected_tokens) ==
  TokenModeResult(difficulty, sel, selected_tokens,
                  MaskTokens(selected_tokens,
                             [ masked_code |-> code, blanks |-> << >>,
                               answers |-> << >>, offset |-> 0,
                               blank_id |-> 1, emitted |-> << >> ]))

\* _create_token_masked_code once the tokens are selected
TokenModeSelected(code, difficulty, sel) ==
  TokenModeMask(code, difficulty, sel, SortByStart(sel.out))

\* _create_token_masked_code once the tokens are analyzed
TokenModeFrom(code, difficulty, r, tokens) ==
  TokenModeSelected(code, difficulty,
    SelectTokens(tokens,
                 get_blank_count_for_difficulty(difficulty, Len(tokens)), r))

\* CodeMasker._create_token_masked_code in generator state r
_create_token_masked_code(code, difficulty, r) ==
  TokenModeFrom(code, difficulty, r, TokenAnalysis[code])

\* the (line_count, token_count) sub-budgets of mixed mode
MixedBudget(difficulty) ==
  IF difficulty = "easy" THEN << 1, 1 >>
  ELSE IF difficulty = "medium" THEN << 1, 2 >>
  ELSE << 2, 3 >>

\* the line draws of mixed mode: high, then medium importance
SelectMixedLines(lines_info, line_count, r) ==
  DrawRest(MediumBand(lines_info),
           DrawRest(HighBand(lines_info), NoSelection(line_count, r)))

\* available_tokens: the tokens kept by the masked-line filter
AvailableTokens(tokens_info, selected_lines) ==
  LET masked_line_numbers ==
        { selected_lines[i].line_number : i \in 1..Len(selected_lines) }
  IN  SelectSeq(tokens_info,
        LAMBDA t : ~(\E line_num \in masked_line_numbers :
                       line_num <= t.start /\ t.start <= line_num))

\* selected_tokens = [] after the line selection sl of mixed mode
TokenSelection(token_count, sl) ==
  [ sl EXCEPT !.out = << >>, !.remaining = token_count ]

\* the token draws of mixed mode: high, then medium importance
SelectMixedTokens(available_tokens, token_count, sl) ==
  DrawRest(MediumBand(available_tokens),
           DrawHigh(HighBand(available_tokens),
                    TokenSelection(token_count, sl)))

\* "# ___[" in working_code[max(0, start_pos-20):start_pos+20]
InsideLineComment(working_code, start_pos) ==
  Contains(Slice(working_code, Max2(0, start_pos - 20), start_pos + 20),
           <<"#"," ","_","_","_","[">>)

\* the loop over selected_tokens of mixed mode:
\* st = [working_code, blanks, answers, offset, blank_id]; emitted lists the
\* tokens spliced so far (the skipped ones are not in it)
RECURSIVE MaskMixedTokens(_, _)
MaskMixedTokens(selected_tokens, st) ==
  IF selected_tokens = << >> THEN st
  ELSE LET token       == Head(selected_tokens)
           placeholder == TokenPlaceholder(st.blank_id)
           start_pos   == token.start + st.offset
           end_pos     == token.end + st.offset
       IN  IF InsideLineComment(st.working_code, start_pos)
           THEN MaskMixedTokens(Tail(selected_tokens), st)
           ELSE MaskMixedTokens(Tail(selected_tokens),
                  [ working_code |-> Slice(st.working_code, 0, start_pos)
                                       \o placeholder
                                       \o SliceFrom(st.working_code, end_pos),
                    blanks       |-> Append(st.blanks,
                                       TokenBlank(token, start_pos,
                                                  st.blank_id)),
                    answers      |-> Append(st.answers, token.token),
                    offset       |-> NextOffset(st.offset, placeholder,
                                                   token),
                    blank_id     |-> st.blank_id + 1,
                    emitted      |-> Append(st.emitted, token) ])

\* the state the token loop of mixed mode starts in, after the line loop
AfterLines(lst) ==
  [ working_code |-> JoinLines(lst.lines),
    blanks |-> lst.blanks, answers |-> lst.answers,
    offset |-> 0, blank_id |-> lst.blank_id, emitted |-> << >> ]

\* the MaskedCode of mixed mode, with the locals it was built from
MixedModeResult(difficulty, sel, selected_lines, selected_tokens, st) ==
  [ result |-> [ masked_code  |-> st.working_code,
                 blanks       |-> st.blanks,
                 answers      |-> st.answers,
                 difficulty   |-> difficulty,
                 masking_mode |-> "mixed" ],
    rng    |-> sel.rng,
    draws  |-> sel.draws,
    raised |-> sel.raised,
    selected_lines  |-> selected_lines,
    selected_tokens |-> selected_tokens,
    emitted_tokens  |-> st.emitted ]

\* _create_mixed_masked_code from the sorts of the selected units on
MixedModeMask(code, difficulty, sel, selected_lines, selected_tokens) ==
  MixedModeResult(difficulty, sel, selected_lines, selected_tokens,
    MaskMixedTokens(selected_tokens,
      AfterLines(MaskLines(selected_lines,
                           [ lines |-> SplitLines(code), blanks |-> << >>,
                             answers |-> << >>, blank_id |-> 1 ]))))

\* _create_mixed_masked_code once lines and tokens are selected
MixedModeSelected(code, difficulty, selected_lines, stk) ==
  MixedModeMask(code, difficulty, stk, selected_lines,
                SortByStart(stk.out))

\* _create_mixed_masked_code once the lines are selected
MixedModeTokens(code, difficulty, tokens_info, sl) ==
  MixedModeSelected(code, difficulty, SortByLineNumber(sl.out),
    SelectMixedTokens(AvailableTokens(tokens_info, sl.out),
                      MixedBudget(difficulty)[2], sl))

\* _create_mixed_masked_code once lines and tokens are analyzed
MixedModeFrom(code, difficulty, r, lines_info, tokens_info) ==
  MixedModeTokens(code, difficulty, tokens_info,
    SelectMixedLines(lines_info, MixedBudget(difficulty)[1], r))

\* CodeMasker._create_mixed_masked_code in generator state r
_create_mixed_masked_code(code, difficulty, r) ==
  MixedModeFrom(code, difficulty, r, LineAnalysis[code], TokenAnalysis[code])

\* session_seed is None
None == -1

\* the dispatch of create_masked_code on the masking mode
Dispatch(code, difficulty, masking_mode, r) ==
  IF masking_mode = "line"
  THEN _create_line_masked_code(code, difficulty, r)
  ELSE IF masking_mode = "token"
  THEN _create_token_masked_code(code, difficulty, r)
  ELSE _create_mixed_masked_code(code, difficulty, r)

\* a create_masked_code that never seeds the generator
create_masked_code_unseeded(code, difficulty, masking_mode, session_seed_arg, r) ==
  Dispatch(code, difficulty, masking_mode, r)

\* CodeMasker.create_masked_code called in generator state r
create_masked_code(code, difficulty, masking_mode, session_seed_arg, r) ==
  Dispatch(code, difficulty, masking_mode,
           IF session_seed_arg # None THEN RngSeed(session_seed_arg) ELSE r)

(***************************************************************************)
(* Arguments of create_masked_code.                                        *)
(***************************************************************************)
\* DifficultyMode
Difficulties == { "easy", "medium", "hard" }

\* MaskingMode
MaskingModes == { "token", "line", "mixed" }

\* the values of the session_seed argument
SeedArgs == (0..MaxSeed) \cup { None }

(***************************************************************************)
(* State.                                                                  *)
(***************************************************************************)
VARIABLES
  code_snippet,       \* the source text being practised
  difficulty_mode,    \* the requested DifficultyMode
  masking_mode_enum,  \* the requested MaskingMode
  session_seed,       \* the session_seed argument of the last call
  rng,                \* state of the process-global random generator
  calls,              \* number of create_masked_code calls made so far
  result,             \* the MaskedCode returned by the last call
  locals,             \* selected_lines / selected_tokens of the last call
  prev,               \* session_seed and MaskedCode of the call before
  threads,            \* the create_masked_code calls running concurrently
  sessions,           \* FillBlanksSessionManager.sessions
  now,                \* time.time(), in seconds
  seed_args,          \* per session: the arguments its seed was made from
  last_call,          \* the last call of the session manager, and their number
  masks               \* what the last create_multiple_masks returned

vars == << code_snippet, difficulty_mode, masking_mode_enum, session_seed,
           rng, calls, result, locals, prev, threads,
           sessions, now, seed_args, last_call, masks >>

\* a session manager just constructed, and no create_multiple_masks call
ManagerIdle ==
  /\ sessions = << >>
  /\ now = 0
  /\ seed_args = << >>
  /\ last_call = [ n |-> 0, op |-> "", key |-> << >>, problem_id |-> 0,
                   difficulty |-> "", max_age_hours |-> 0, returned |-> 0,
                   before |-> << >>, at |-> 0 ]
  /\ masks = [ n |-> 0, count |-> 0, raised |-> FALSE, masks |-> << >> ]

\* the session manager and the list of masks are left alone
ManagerUnchanged ==
  UNCHANGED << sessions, now, seed_args, last_call, masks >>

NoResult ==
  [ masked_code |-> << >>, blanks |-> << >>, answers |-> << >>,
    difficulty |-> "", masking_mode |-> "" ]

NoLocals ==
  [ selected_lines |-> << >>, selected_tokens |-> << >>,
    emitted_tokens |-> << >>, draws |-> << >>, raised |-> FALSE ]

Init ==
  /\ code_snippet \in Codes
  /\ difficulty_mode \in Difficulties
  /\ masking_mode_enum \in MaskingModes
  /\ session_seed = None
  /\ rng \in 0..(RngMod - 1)
  /\ calls = 0
  /\ result = NoResult
  /\ locals = NoLocals
  /\ prev = [ session_seed |-> None, result |-> NoResult ]
  /\ threads = << >>
  /\ ManagerIdle

\* the state after a create_masked_code(.., seed) that returned r, or
\* raised out of a draw
Returned(seed, r) ==
  /\ result' = IF r.raised THEN NoResult ELSE r.result
  /\ rng' = r.rng
  /\ locals' = [ selected_lines  |-> r.selected_lines,
                 selected_tokens |-> r.selected_tokens,
                 emitted_tokens  |-> r.emitted_tokens,
                 draws           |-> r.draws,
                 raised          |-> r.raised ]
  /\ session_seed' = seed
  /\ calls' = calls + 1
  /\ prev' = [ session_seed |-> session_seed, result |-> result ]
  /\ UNCHANGED << code_snippet, difficulty_mode, masking_mode_enum, threads >>
  /\ ManagerUnchanged

\* the effect of one create_masked_code(code_snippet, difficulty_mode,
\* masking_mode_enum, seed) on the state
Invoke(seed) ==
  Returned(seed, create_masked_code(code_snippet, difficulty_mode,
                                    masking_mode_enum, seed, rng))

\* the first call, with any session seed or none
Call(seed) ==
  /\ calls = 0
  /\ Invoke(seed)

\* the same call made once more (same text, difficulty, mode and seed)
CallAgain ==
  /\ calls = 1
  /\ Invoke(session_seed)

Next ==
  \/ \E seed \in SeedArgs : Call(seed)
  \/ CallAgain

Spec == Init /\ [][Next]_vars

(***************************************************************************)
(* Two create_masked_code calls running in two threads of one process.     *)
(* Each call seeds the module-level generator (random.seed) and then draws *)
(* from it (random.sample); a thread can be preempted between any two of   *)
(* these statements.                                                       *)
(***************************************************************************)
\* the threads
Threads == 1..2

\* the session seeds of the concurrent calls
ThreadSeeds == 0..MaxSeed

\* the texts the concurrent calls are run on
ThreadCodes ==
  CodesOfLen(1) \cup { ScenarioA, ScenarioD, TabIndented }

\* the number of random.sample statements on the path of a mode
DrawCount(masking_mode) ==
  IF masking_mode = "token" THEN 3
  ELSE IF masking_mode = "line" THEN 2
  ELSE 4

\* the budget the first selection of a mode starts with
FirstBudget(code, difficulty, masking_mode) ==
  IF masking_mode = "token"
  THEN get_blank_count_for_difficulty(difficulty, Len(TokenAnalysis[code]))
  ELSE IF masking_mode = "line"
  THEN get_blank_count_for_difficulty(difficulty, Len(LineAnalysis[code]))
  ELSE MixedBudget(difficulty)[1]

\* the k-th random.sample statement of a mode, applied to the selection
\* sel; masked_lines are the lines mixed mode has selected
NthDraw(code, difficulty, masking_mode, k, sel, masked_lines) ==
  IF masking_mode = "token"
  THEN IF k = 1 THEN DrawHigh(HighBand(TokenAnalysis[code]), sel)
       ELSE IF k = 2 THEN DrawRest(MediumBand(TokenAnalysis[code]), sel)
       ELSE DrawRest(LowBand(TokenAnalysis[code]), sel)
  ELSE IF masking_mode = "line"
  THEN IF k = 1 THEN DrawHigh(HighBand(LineAnalysis[code]), sel)
       ELSE DrawRest(MediumBand(LineAnalysis[code]), sel)
  ELSE IF k = 1 THEN DrawRest(HighBand(LineAnalysis[code]), sel)
       ELSE IF k = 2 THEN DrawRest(MediumBand(LineAnalysis[code]), sel)
       ELSE IF k = 3
       THEN DrawHigh(HighBand(AvailableTokens(TokenAnalysis[code],
                                              masked_lines)),
                     TokenSelection(MixedBudget(difficulty)[2], sel))
       ELSE DrawRest(MediumBand(AvailableTokens(TokenAnalysis[code],
                                                masked_lines)),
                     sel)

\* the MaskedCode a mode builds from its finished selection
ResultOfSelection(code, difficulty, masking_mode, sel, masked_lines) ==
  IF sel.raised THEN NoResult
  ELSE IF masking_mode = "token"
  THEN TokenModeSelected(code, difficulty, sel).result
  ELSE IF masking_mode = "line"
  THEN LineModeSelected(code, difficulty, sel).result
  ELSE MixedModeSelected(code, difficulty, SortByLineNumber(masked_lines),
                         sel).result

\* a thread about to enter create_masked_code(.., seed)
NewThread(seed) ==
  [ pc |-> "seed", session_seed |-> seed, drawn |-> 0,
    sel |-> NoSelection(0, 0), masked_lines |-> << >>,
    result |-> NoResult ]

InitThreads ==
  /\ code_snippet \in ThreadCodes
  /\ difficulty_mode \in Difficulties
  /\ masking_mode_enum \in MaskingModes
  /\ session_seed = None
  /\ rng \in 0..(RngMod - 1)
  /\ calls = 0
  /\ result = NoResult
  /\ locals = NoLocals
  /\ prev = [ session_seed |-> None, result |-> NoResult ]
  /\ threads \in { [ t \in Threads |-> NewThread(seeds[t]) ] :
                     seeds \in [ Threads -> ThreadSeeds ] }
  /\ ManagerIdle

\* what the sequential state machine keeps
SequentialUnchanged ==
  /\ UNCHANGED << code_snippet, difficulty_mode, masking_mode_enum,
                  session_seed, calls, result, locals, prev >>
  /\ ManagerUnchanged

\* thread t runs random.seed(session_seed) and the statements up to the
\* first random.sample
ThreadSeed(t) ==
  /\ threads[t].pc = "seed"
  /\ rng' = RngSeed(threads[t].session_seed)
  /\ threads' = [ threads EXCEPT
                    ![t].pc  = "draw",
                    ![t].sel = NoSelection(FirstBudget(code_snippet,
                                                       difficulty_mode,
                                                       masking_mode_enum),
                                           0) ]
  /\ SequentialUnchanged

\* the thread th after its next random.sample left the selection sel
AfterDraw(th, masking_mode, sel) ==
  [ th EXCEPT
      !.pc    = IF th.drawn + 1 = DrawCount(masking_mode)
                THEN "mask" ELSE "draw",
      !.drawn = th.drawn + 1,
      !.sel   = sel,
      !.masked_lines = IF masking_mode = "mixed" /\ th.drawn + 1 = 2
                       THEN sel.out ELSE th.masked_lines ]

\* the state after thread t's next random.sample left the selection sel
Drew(t, sel) ==
  /\ rng' = sel.rng
  /\ threads' = [ threads EXCEPT
                    ![t] = AfterDraw(threads[t], masking_mode_enum, sel) ]
  /\ SequentialUnchanged

\* thread t runs its next random.sample statement on the generator as it
\* is now
ThreadDraw(t) ==
  /\ threads[t].pc = "draw"
  /\ Drew(t, NthDraw(code_snippet, difficulty_mode, masking_mode_enum,
                     threads[t].drawn + 1,
                     [ threads[t].sel EXCEPT !.rng = rng ],
                     threads[t].masked_lines))

\* thread t sorts its selection, builds the masked text and returns
ThreadReturn(t) ==
  /\ threads[t].pc = "mask"
  /\ threads' = [ threads EXCEPT
                    ![t].pc = "done",
                    ![t].result =
                      ResultOfSelection(code_snippet, difficulty_mode,
                                        masking_mode_enum, threads[t].sel,
                                        threads[t].masked_lines) ]
  /\ UNCHANGED rng
  /\ SequentialUnchanged

NextThreads ==
  \E t \in Threads :
    \/ ThreadSeed(t)
    \/ ThreadDraw(t)
    \/ ThreadReturn(t)

SpecThreads == InitThreads /\ [][NextThreads]_vars

(***************************************************************************)
(* FillBlanksSessionManager (session_manager.py): one manager instance,    *)
(* called with several user ids, problem ids and difficulties while the    *)
(* clock advances.                                                         *)
(***************************************************************************)
\* the characters of a difficulty string
DifficultyText(difficulty) ==
  CASE difficulty = "easy"   -> <<"e","a","s","y">>
    [] difficulty = "medium" -> <<"m","e","d","i","u","m">>
    [] difficulty = "hard"   -> <<"h","a","r","d">>

\* f"{user_id}_{problem_id}"
get_session_key(problem_id, user_id) ==
  user_id \o <<"_">> \o IntToStr(problem_id)

\* f"{problem_id}_{attempt}_{difficulty}_{time_component}" with
\* time_component = int(time.time() / 3600)
SeedString(problem_id, attempt, difficulty, t) ==
  IntToStr(problem_id) \o <<"_">> \o IntToStr(attempt) \o <<"_">>
    \o DifficultyText(difficulty) \o <<"_">> \o IntToStr(t \div 3600)

\* the place of a character among those a seed string is made of
CharIndex(c) ==
  LET alphabet == << "0","1","2","3","4","5","6","7","8","9","_","a","d",
                     "e","h","i","m","r","s","u","y" >>
  IN  CHOOSE i \in 1..Len(alphabet) : alphabet[i] = c

\* int(hashlib.md5(s.encode()).hexdigest()[:8], 16): a fixed function of the
\* characters of s, here a polynomial hash of 16 bits
RECURSIVE DigestPrefix(_, _)
DigestPrefix(s, h) ==
  IF s = << >> THEN h
  ELSE DigestPrefix(Tail(s), (h * 31 + CharIndex(Head(s))) % 65536)

\* FillBlanksSessionManager._generate_seed at time t
_generate_seed(problem_id, attempt, difficulty, t) ==
  DigestPrefix(SeedString(problem_id, attempt, difficulty, t), 7)
    % 2147483647

\* the SessionState of a session created at time t
NewSession(problem_id, difficulty, t) ==
  [ problem_id     |-> problem_id,
    attempt_number |-> 1,
    difficulty     |-> difficulty,
    session_seed   |-> _generate_seed(problem_id, 1, difficulty, t),
    created_at     |-> t ]

\* a new seed and time for the session, the attempt number left as it is
SameAttempt(session, problem_id, difficulty, t) ==
  [ session EXCEPT
      !.session_seed = _generate_seed(problem_id, session.attempt_number,
                                      difficulty, t),
      !.created_at   = t ]

\* session.attempt_number += 1; session.session_seed = ...;
\* session.created_at = time.time()
NextAttempt(session, problem_id, difficulty, t) ==
  [ session EXCEPT
      !.attempt_number = session.attempt_number + 1,
      !.session_seed   = _generate_seed(problem_id,
                                        session.attempt_number + 1,
                                        difficulty, t),
      !.created_at     = t ]

\* the sessions after get_session_seed(problem_id, difficulty, user_id) at
\* time t, for session_key = get_session_key(problem_id, user_id)
get_session_seed(ss, session_key, problem_id, difficulty, t) ==
  IF session_key \notin DOMAIN ss
  THEN (session_key :> NewSession(problem_id, difficulty, t)) @@ ss
  ELSE [ ss EXCEPT ![session_key] =
           NextAttempt(ss[session_key], problem_id, difficulty, t) ]

\* the sessions after get_new_variation_seed(problem_id, difficulty,
\* user_id) at time t
get_new_variation_seed(ss, session_key, problem_id, difficulty, t) ==
  IF session_key \in DOMAIN ss
  THEN [ ss EXCEPT ![session_key] =
           NextAttempt(ss[session_key], problem_id, difficulty, t) ]
  ELSE get_session_seed(ss, session_key, problem_id, difficulty, t)

\* FillBlanksSessionManager.get_session_info
get_session_info(ss, session_key) ==
  IF session_key \in DOMAIN ss
  THEN [ attempt_number |-> ss[session_key].attempt_number,
         difficulty     |-> ss[session_key].difficulty,
         session_seed   |-> ss[session_key].session_seed,
         created_at     |-> ss[session_key].created_at ]
  ELSE [ attempt_number |-> 0, difficulty |-> "medium",
         session_seed |-> 0, created_at |-> 0 ]

\* the keys of the sessions that have reached the age max_age_hours at time t
keys_at_age(ss, max_age_hours, t) ==
  { key \in DOMAIN ss : t - ss[key].created_at >= max_age_hours * 3600 }

\* the keys clean_old_sessions(max_age_hours) removes at time t
keys_to_remove(ss, max_age_hours, t) ==
  { key \in DOMAIN ss : t - ss[key].created_at > max_age_hours * 3600 }

\* the sessions after clean_old_sessions(max_age_hours) at time t
clean_old_sessions(ss, max_age_hours, t) ==
  [ key \in DOMAIN ss \ keys_to_remove(ss, max_age_hours, t) |-> ss[key] ]

\* the arguments of the _generate_seed call that made the seed of the
\* session of session_key in ss
SeedArgsOf(ss, session_key, problem_id, difficulty, t) ==
  [ problem_id |-> problem_id,
    attempt    |-> ss[session_key].attempt_number,
    difficulty |-> difficulty,
    at         |-> t ]

InitSessions ==
  /\ code_snippet = << >>
  /\ difficulty_mode = "easy"
  /\ masking_mode_enum = "token"
  /\ session_seed = None
  /\ rng = 0
  /\ calls = 0
  /\ result = NoResult
  /\ locals = NoLocals
  /\ prev = [ session_seed |-> None, result |-> NoResult ]
  /\ threads = << >>
  /\ ManagerIdle

\* what the calls of the session manager leave alone
MaskerUnchanged ==
  UNCHANGED << code_snippet, difficulty_mode, masking_mode_enum,
               session_seed, rng, calls, result, locals, prev, threads,
               masks >>

\* the state after a seed request op for session_key left the sessions ss
SeedReturned(op, session_key, problem_id, difficulty, ss) ==
  /\ sessions' = ss
  /\ seed_args' = (session_key :> SeedArgsOf(ss, session_key, problem_id,
                                             difficulty, now))
                    @@ seed_args
  /\ last_call' = [ n |-> last_call.n + 1, op |-> op, key |-> session_key,
                    problem_id |-> problem_id, difficulty |-> difficulty,
                    max_age_hours |-> 0,
                    returned |-> ss[session_key].session_seed,
                    before |-> sessions, at |-> now ]
  /\ UNCHANGED now
  /\ MaskerUnchanged

\* session_manager.get_session_seed(problem_id, difficulty, user_id)
GetSessionSeed(user_id, problem_id, difficulty) ==
  /\ last_call.n < MaxManagerCalls
  /\ SeedReturned("get_session_seed",
                  get_session_key(problem_id, user_id), problem_id,
                  difficulty,
                  get_session_seed(sessions,
                                   get_session_key(problem_id, user_id),
                                   problem_id, difficulty, now))

\* session_manager.get_new_variation_seed(problem_id, difficulty, user_id)
GetNewVariationSeed(user_id, problem_id, difficulty) ==
  /\ last_call.n < MaxManagerCalls
  /\ SeedReturned("get_new_variation_seed",
                  get_session_key(problem_id, user_id), problem_id,
                  difficulty,
                  get_new_variation_seed(sessions,
                                         get_session_key(problem_id, user_id),
                                         problem_id, difficulty, now))

\* the state after a clean_old_sessions call left the sessions ss
Cleaned(max_age_hours, ss) ==
  /\ sessions' = ss
  /\ seed_args' = [ key \in DOMAIN ss |-> seed_args[key] ]
  /\ last_call' = [ n |-> last_call.n + 1, op |-> "clean_old_sessions",
                    key |-> << >>, problem_id |-> 0, difficulty |-> "",
                    max_age_hours |-> max_age_hours, returned |-> 0,
                    before |-> sessions, at |-> now ]
  /\ UNCHANGED now
  /\ MaskerUnchanged

\* session_manager.clean_old_sessions(max_age_hours)
CleanOldSessions(max_age_hours) ==
  /\ last_call.n < MaxManagerCalls
  /\ Cleaned(max_age_hours, clean_old_sessions(sessions, max_age_hours, now))

\* time passes
Tick ==
  /\ now < MaxHours * 3600
  /\ now' = now + ClockStep
  /\ UNCHANGED << sessions, seed_args, last_call >>
  /\ MaskerUnchanged

NextSessions ==
  \/ \E user_id \in { <<"u">>, <<"u","_","1">> }, problem_id \in { 1, 2 },
        difficulty \in { "easy", "hard" } :
       \/ GetSessionSeed(user_id, problem_id, difficulty)
       \/ GetNewVariationSeed(user_id, problem_id, difficulty)
  \/ \E max_age_hours \in { 0, 1 } : CleanOldSessions(max_age_hours)
  \/ Tick

SpecSessions == InitSessions /\ [][NextSessions]_vars

(***************************************************************************)
(* CodeMasker.create_multiple_masks: one mixed mode mask per difficulty,   *)
(* then random variations, all drawing from the process-global generator.  *)
(***************************************************************************)
\* MaskedCode(**fields): no field of the dataclass has a default, and the
\* constructor raises TypeError when a field is missing
MaskedCode(fields) ==
  IF { "masked_code", "blanks", "answers", "difficulty", "masking_mode" }
       \subseteq DOMAIN fields
  THEN [ raised |-> FALSE, value |-> fields ]
  ELSE [ raised |-> TRUE, value |-> NoResult ]

\* if mask.blanks: masks.append(mask), for the mask m of one difficulty
AppendIfBlanks(acc, m) ==
  IF m.raised
  THEN [ masks |-> acc.masks, rng |-> m.rng, raised |-> TRUE ]
  ELSE [ masks  |-> IF m.result.blanks # << >>
                    THEN Append(acc.masks, m.result) ELSE acc.masks,
         rng    |-> m.rng,
         raised |-> FALSE ]

\* one round of the loop over DifficultyMode:
\* mask = self.create_masked_code(code, difficulty)
DifficultyMask(code, difficulty, acc) ==
  IF acc.raised THEN acc
  ELSE AppendIfBlanks(acc, create_masked_code(code, difficulty, "mixed",
                                              None, acc.rng))

\* the loop over DifficultyMode, in the order of the enumeration, from
\* masks = []; it yields the list of masks, the generator state, and whether
\* a call raised
DifficultyMasks(code, r) ==
  DifficultyMask(code, "hard",
    DifficultyMask(code, "medium",
      DifficultyMask(code, "easy",
        [ masks |-> << >>, rng |-> r, raised |-> FALSE ])))

\* mask = MaskedCode(masked_code=.., blanks=.., answers=..,
\*                   difficulty=DifficultyMode.MEDIUM); masks.append(mask)
AppendVariation(acc, r, mask) ==
  IF mask.raised
  THEN [ masks |-> acc.masks, rng |-> r, raised |-> TRUE ]
  ELSE [ masks |-> Append(acc.masks, mask.value), rng |-> r,
         raised |-> FALSE ]

\* a random variation once its tokens are spliced: st is the state the
\* splice loop ends in
VariationSpliced(acc, r, st) ==
  AppendVariation(acc, r,
    MaskedCode([ masked_code |-> st.masked_code,
                 blanks      |-> st.blanks,
                 answers     |-> st.answers,
                 difficulty  |-> "medium" ]))

\* a random variation once random.sample has drawn its tokens
VariationSampled(code, acc, sampled) ==
  IF sampled.raised
  THEN [ masks |-> acc.masks, rng |-> sampled.rng, raised |-> TRUE ]
  ELSE VariationSpliced(acc, sampled.rng,
         MaskTokens(SortByStart(sampled.out),
                    [ masked_code |-> code, blanks |-> << >>,
                      answers |-> << >>, offset |-> 0,
                      blank_id |-> 1, emitted |-> << >> ]))

\* one round of the loop of random variations:
\* selected_count = random.randint(2, min(6, len(tokens)));
\* random_tokens = random.sample(tokens, selected_count)
Variation(code, tokens, acc) ==
  VariationSampled(code, acc,
    Sample(tokens, 2 + RandBelow(acc.rng, Min2(6, Len(tokens)) - 2 + 1),
           RngNext(acc.rng)))

\* for _ in range(rounds): a variation
RECURSIVE Variations(_, _, _, _)
Variations(code, tokens, rounds, acc) ==
  IF rounds <= 0 \/ acc.raised THEN acc
  ELSE Variations(code, tokens, rounds - 1, Variation(code, tokens, acc))

\* the random variations: if len(tokens) > 3:
\*   for _ in range(min(count - len(masks), 3)): ..
RandomVariations(code, count, tokens, acc) ==
  IF acc.raised \/ Len(tokens) <= 3 THEN acc
  ELSE Variations(code, tokens, Min2(count - Len(acc.masks), 3), acc)

\* return masks[:count], for count >= 0
FirstMasks(count, acc) ==
  [ masks  |-> IF acc.raised THEN << >>
               ELSE SubSeq(acc.masks, 1, Min2(count, Len(acc.masks))),
    rng    |-> acc.rng,
    raised |-> acc.raised ]

\* CodeMasker.create_multiple_masks(code, count) in generator state r
create_multiple_masks(code, count, r) ==
  FirstMasks(count,
    RandomVariations(code, count, TokenAnalysis[code],
                     DifficultyMasks(code, r)))

InitMasks ==
  /\ code_snippet \in CodesOfLen(1) \cup CodesOfLen(2)
                       \cup { ScenarioA, ScenarioB, ScenarioD, TabIndented,
                              TypeAndMethod, UnderscoreLoop, ListCalls }
  /\ difficulty_mode = "medium"
  /\ masking_mode_enum = "mixed"
  /\ session_seed = None
  /\ rng \in 0..(RngMod - 1)
  /\ calls = 0
  /\ result = NoResult
  /\ locals = NoLocals
  /\ prev = [ session_seed |-> None, result |-> NoResult ]
  /\ threads = << >>
  /\ ManagerIdle

\* the state after create_multiple_masks(code_snippet, count) ended in m
MasksReturned(count, m) ==
  /\ masks' = [ n |-> masks.n + 1, count |-> count, raised |-> m.raised,
                masks |-> m.masks ]
  /\ rng' = m.rng
  /\ UNCHANGED << code_snippet, difficulty_mode, masking_mode_enum,
                  session_seed, calls, result, locals, prev, threads,
                  sessions, now, seed_args, last_call >>

\* one create_multiple_masks(code_snippet, count)
CreateMultipleMasks(count) ==
  /\ masks.n < MaxMaskCalls
  /\ MasksReturned(count, create_multiple_masks(code_snippet, count, rng))

NextMasks == \E count \in 0..MaxCount : CreateMultipleMasks(count)

SpecMasks == InitMasks /\ [][NextMasks]_vars

(***************************************************************************)
(* Properties of create_masked_code.                                       *)
(***************************************************************************)
\* the blanks of the last result that stand for single tokens
TokenBlanksOf(res) == SelectSeq(res.blanks, LAMBDA b : ~b.is_line)

\* the blanks of the last result that stand for whole lines
LineBlanksOf(res) == SelectSeq(res.blanks, LAMBDA b : b.is_line)

\* text with blanks[i] .. blanks[1] undone: the span
\* [position, position + length) of each gets the blank's token back
RECURSIVE RestoreAt(_, _, _)
RestoreAt(text, blanks, i) ==
  IF i = 0 THEN text
  ELSE RestoreAt(Slice(text, 0, blanks[i].position) \o blanks[i].token
                   \o SliceFrom(text, blanks[i].position + blanks[i].length),
                 blanks, i - 1)

\* offset of the first occurrence of p in s at or after i, -1 if there is none
FindFrom(s, p, i) ==
  LET found == { j \in i..(Len(s) - Len(p)) : HasAt(s, j, p) }
  IN  IF found = { } THEN -1
      ELSE CHOOSE j \in found : \A k \in found : j <= k

\* s.replace(old, new)
RECURSIVE Replace(_, _, _)
Replace(s, old, new) ==
  LET i == FindFrom(s, old, 0)
  IN  IF i = -1 THEN s
      ELSE Slice(s, 0, i) \o new \o Replace(SliceFrom(s, i + Len(old)), old, new)

\* text with every ___[k], k = 1..n, replaced by answers[k]
RECURSIVE SubstituteAnswers(_, _, _)
SubstituteAnswers(text, answers, n) ==
  IF n = 0 THEN text
  ELSE Replace(SubstituteAnswers(text, answers, n - 1),
               TokenPlaceholder(n), answers[n])

\* C1: after a token-mode call, every blank's span in masked_code holds its
\* placeholder ___[k], answers[k] is the token it replaced, and putting the
\* answers back in place of the placeholders gives the original code.
TokenRoundTrip ==
  (calls >= 1 /\ masking_mode_enum = "token") =>
    /\ Len(result.answers) = Len(result.blanks)
    /\ \A k \in 1..Len(result.blanks) :
         /\ Slice(result.masked_code, result.blanks[k].position,
                  result.blanks[k].position + result.blanks[k].length)
              = TokenPlaceholder(k)
         /\ result.answers[k] = result.blanks[k].token
    /\ RestoreAt(result.masked_code, result.blanks, Len(result.blanks))
         = code_snippet
    /\ SubstituteAnswers(result.masked_code, result.answers,
                         Len(result.answers)) = code_snippet

\* C1 witness: a token-mode result with several blanks whose placeholders
\* moved the text behind them
TokenRoundTripWitness ==
  /\ calls >= 1
  /\ masking_mode_enum = "token"
  /\ Len(result.blanks) >= 2
  /\ Len(result.masked_code) # Len(code_snippet)
  /\ result.blanks[2].position # locals.selected_tokens[2].start

\* C2: in token and line mode the number of blanks is
\* min(cap of the difficulty, number of candidates of the analyzer).
BudgetInvariant ==
  /\ (calls >= 1 /\ masking_mode_enum = "token") =>
       Len(result.blanks) =
         get_blank_count_for_difficulty(difficulty_mode,
                                        Len(TokenAnalysis[code_snippet]))
  /\ (calls >= 1 /\ masking_mode_enum = "line") =>
       Len(result.blanks) =
         get_blank_count_for_difficulty(difficulty_mode,
                                        Len(LineAnalysis[code_snippet]))

\* C3: a call repeated with the same code, difficulty, mode and a session
\* seed that is not None returns the result of the call before.
SeededDeterminism ==
  (calls = 2 /\ session_seed # None) =>
    /\ prev.session_seed = session_seed
    /\ result = prev.result

\* C3 witness: a seeded mixed-mode call repeated, with a line blank and a
\* token blank drawn from more candidates than were taken
SeededDeterminismWitness ==
  /\ calls = 2
  /\ session_seed # None
  /\ masking_mode_enum = "mixed"
  /\ LineBlanksOf(result) # << >>
  /\ TokenBlanksOf(result) # << >>
  /\ Len(TokenAnalysis[code_snippet]) > Len(TokenBlanksOf(result))

\* C4: blanks[i].blank_id = i + 1 for every 0-based index i, in every mode.
ContiguousBlankIds ==
  calls >= 1 =>
    \A i \in 1..Len(result.blanks) : result.blanks[i].blank_id = i

\* C4 witness: a mixed-mode call with a line blank whose safety check
\* skipped a selected token and which emitted a token behind the skipped one
ContiguousBlankIdsWitness ==
  /\ calls >= 1
  /\ masking_mode_enum = "mixed"
  /\ LineBlanksOf(result) # << >>
  /\ \E i \in 1..Len(locals.selected_tokens) :
       /\ \A j \in 1..Len(locals.emitted_tokens) :
            locals.emitted_tokens[j] # locals.selected_tokens[i]
       /\ \E j \in 1..Len(locals.emitted_tokens) :
            locals.emitted_tokens[j].start > locals.selected_tokens[i].start

\* offset in the last masked_code of the placeholder text ___[k] of the blank
\* numbered k, -1 if the text does not occur
PlaceholderOffset(k) == FindFrom(result.masked_code, TokenPlaceholder(k), 0)

NoCandidates ==
  \/ masking_mode_enum = "token" /\ TokenAnalysis[code_snippet] = << >>
  \/ masking_mode_enum = "line" /\ LineAnalysis[code_snippet] = << >>
  \/ /\ masking_mode_enum = "mixed"
     /\ TokenAnalysis[code_snippet] = << >>
     /\ LineAnalysis[code_snippet] = << >>

\* C6: when the analyzer of the requested mode finds no candidate, the
\* result has no blanks, no answers and masked_code equal to the input.
NoCandidatesUnchanged ==
  (calls >= 1 /\ NoCandidates) =>
    /\ result.blanks = << >>
    /\ result.answers = << >>
    /\ result.masked_code = code_snippet
    /\ result.difficulty = difficulty_mode
    /\ result.masking_mode = masking_mode_enum

\* C6 witness: a line-mode call on a text of several lines, all of them
\* blank or comments, that ends with a newline
NoCandidatesUnchangedWitness ==
  /\ calls >= 1
  /\ masking_mode_enum = "line"
  /\ NoCandidates
  /\ Len(SplitLines(code_snippet)) >= 3
  /\ \E i \in 1..Len(code_snippet) : code_snippet[i] = "#"
  /\ code_snippet[Len(code_snippet)] = "\n"

\* ts is ascending by start and no span reaches into the next one
AscendingDisjoint(ts) ==
  /\ \A i \in 1..Len(ts) : ts[i].start < ts[i].end
  /\ \A i \in 1..(Len(ts) - 1) : ts[i].end <= ts[i + 1].start

\* C7: the list of analyze_code_tokens is ascending by start with pairwise
\* disjoint spans, and so are the tokens selected and sorted in token mode.
NonOverlap ==
  /\ AscendingDisjoint(TokenAnalysis[code_snippet])
  /\ (calls >= 1 /\ masking_mode_enum = "token") =>
       /\ AscendingDisjoint(locals.selected_tokens)
       /\ locals.emitted_tokens = locals.selected_tokens

\* C7 witness: a token-mode call that selected several tokens from an
\* analysis whose sweep had dropped overlapping matches
NonOverlapWitness ==
  /\ calls >= 1
  /\ masking_mode_enum = "token"
  /\ Len(locals.selected_tokens) >= 2
  /\ Len(PooledMatches(code_snippet, 1)) > Len(TokenAnalysis[code_snippet])

\* offset in the text of the first character of the line numbered n
RECURSIVE LineStart(_, _)
LineStart(lines, n) ==
  IF n = 0 THEN 0
  ELSE LineStart(lines, n - 1) + Len(lines[n]) + 1

\* the span of token lies inside the line numbered n of the text
InsideLine(token, lines, n) ==
  /\ LineStart(lines, n) <= token.start
  /\ token.end <= LineStart(lines, n) + Len(lines[n + 1])

\* C8: in mixed mode no token inside a line selected for line masking stays
\* in the token pool, and no token blank comes from inside such a line.
MixedExclusion ==
  (calls >= 1 /\ masking_mode_enum = "mixed") =>
    LET lines     == SplitLines(code_snippet)
        available == AvailableTokens(TokenAnalysis[code_snippet],
                                     locals.selected_lines)
    IN  \A l \in 1..Len(locals.selected_lines) :
          /\ \A t \in 1..Len(available) :
               ~InsideLine(available[t], lines,
                           locals.selected_lines[l].line_number)
          /\ \A t \in 1..Len(locals.emitted_tokens) :
               ~InsideLine(locals.emitted_tokens[t], lines,
                           locals.selected_lines[l].line_number)

\* the lines of the text with every selected line replaced by its placeholder
RECURSIVE LineModified(_, _, _)
LineModified(lines, selected_lines, k) ==
  IF k > Len(selected_lines) THEN lines
  ELSE LET n == selected_lines[k].line_number
       IN  LineModified([ lines EXCEPT ![n + 1] =
                            LinePlaceholder(lines[n + 1], k,
                                            selected_lines[k].category) ],
                        selected_lines, k + 1)

\* C9: in mixed mode each token placeholder replaces exactly the characters
\* of its token in the line-modified text, so that putting the tokens back
\* gives the line-modified text (the original with only the selected lines
\* replaced by their placeholders).
MixedTextPreserved ==
  (calls >= 1 /\ masking_mode_enum = "mixed") =>
    LET tokens == TokenBlanksOf(result)
    IN  RestoreAt(result.masked_code, tokens, Len(tokens))
          = JoinLines(LineModified(SplitLines(code_snippet),
                                   locals.selected_lines, 1))

\* C10: in mixed mode the number of line blanks is min(line sub-budget, line
\* candidates) and the number of token blanks is min(token sub-budget,
\* available token candidates).
MixedCounts ==
  (calls >= 1 /\ masking_mode_enum = "mixed") =>
    /\ Len(LineBlanksOf(result)) =
         Min2(MixedBudget(difficulty_mode)[1],
              Len(LineAnalysis[code_snippet]))
    /\ Len(TokenBlanksOf(result)) =
         Min2(MixedBudget(difficulty_mode)[2],
              Len(AvailableTokens(TokenAnalysis[code_snippet],
                                  locals.selected_lines)))

(***************************************************************************)
(* Properties of the answer key and of the line placeholders.              *)
(***************************************************************************)
\* s has no leading and no trailing whitespace
Trimmed(s) ==
  s = << >> \/ (s[1] \notin Whitespace /\ s[Len(s)] \notin Whitespace)

\* the comparison of the "Check Answers" button:
\* user_input.strip() == correct_answer.strip()
CheckAnswer(user_input, correct_answer) ==
  Strip(user_input) = Strip(correct_answer)

\* C11: in every result of every mode the answers are parallel to the
\* blanks, answers[i] is blanks[i].token, every answer has no leading or
\* trailing whitespace, and the answer check accepts an input exactly when
\* its stripped text is the answer.
ParallelTrimmedAnswers ==
  calls > 0 =>
    /\ Len(result.answers) = Len(result.blanks)
    /\ \A i \in 1..Len(result.blanks) :
         /\ result.answers[i] = result.blanks[i].token
         /\ Trimmed(result.answers[i])
         /\ result.answers[i] # << >>
         /\ CheckAnswer(<<" ">> \o result.answers[i] \o <<" ">>,
                        result.answers[i])
         /\ ~CheckAnswer(result.answers[i] \o <<"x">>, result.answers[i])

\* a line blank whose original line is indented, next to a token blank
ParallelTrimmedAnswersWitness ==
  /\ calls > 0
  /\ masking_mode_enum = "mixed"
  /\ \E i \in 1..Len(result.blanks) :
       /\ result.blanks[i].is_line
       /\ result.blanks[i].length > Len(result.answers[i])
  /\ \E i \in 1..Len(result.blanks) : ~result.blanks[i].is_line

\* the leading whitespace of a line, character for character
Indentation(line) == Slice(line, 0, Len(line) - Len(LStrip(line)))

\* f"# ___[{blank_id}] - {category} line missing here"
LineComment(blank_id, category) ==
  <<"#"," ","_","_","_","[">> \o IntToStr(blank_id) \o <<"]"," ","-"," ">> \o CategoryText(category)
    \o <<" ","l","i","n","e"," ","m","i","s","s","i","n","g"," ","h","e","r","e">>

\* C12: for every line blank, the masked line at blank.line_number is the
\* original line's leading whitespace, character for character, followed by
\* "# ___[blank_id] - <category> line missing here", and that whitespace
\* followed by the blank's original text is the original line (up to
\* trailing whitespace).
LinePlaceholderKeepsIndentation ==
  calls > 0 /\ masking_mode_enum # "token" =>
    \A i \in 1..Len(result.blanks) :
      LET b        == result.blanks[i]
          original == SplitLines(code_snippet)[b.line_number + 1]
          masked   == SplitLines(result.masked_code)[b.line_number + 1]
      IN  b.is_line =>
          /\ masked = Indentation(original) \o LineComment(b.blank_id, b.category)
          /\ Indentation(original) \o b.token = RStrip(original)

(***************************************************************************)
(* Properties of the selection by importance band.                         *)
(***************************************************************************)
\* C13: in token mode, when the candidate pool holds a token of importance
\* >= 8 and the budget is positive, at least one blank is a High band token;
\* at Easy difficulty the single blank is a High band token (for the input
\* of scenario A it is `if` or `return`).
HighBandFirst ==
  calls > 0 /\ masking_mode_enum = "token"
    /\ HighBand(TokenAnalysis[code_snippet]) # << >>
    /\ get_blank_count_for_difficulty(difficulty_mode,
                                      Len(TokenAnalysis[code_snippet])) > 0
  => /\ Len(result.blanks) = Len(locals.selected_tokens)
     /\ \E i \in 1..Len(result.blanks) :
          /\ locals.selected_tokens[i].importance >= 8
          /\ result.blanks[i].token = locals.selected_tokens[i].token
     /\ difficulty_mode = "easy" =>
          /\ Len(result.blanks) = 1
          /\ locals.selected_tokens[1].importance >= 8
          /\ result.blanks[1].token = locals.selected_tokens[1].token
          /\ code_snippet = ScenarioA =>
               result.blanks[1].token \in { <<"i","f">>, <<"r","e","t","u","r","n">> }

\* an Easy token-mode result for a text that also has candidates below the
\* High band
HighBandFirstWitness ==
  /\ calls > 0
  /\ masking_mode_enum = "token"
  /\ difficulty_mode = "easy"
  /\ code_snippet = ScenarioA
  /\ MediumBand(TokenAnalysis[code_snippet]) # << >>
  /\ Len(result.blanks) = 1

\* the importance analyze_code_lines gives line number n of the input
ImportanceOfLine(n) ==
  LET infos == SelectSeq(LineAnalysis[code_snippet],
                         LAMBDA l : l.line_number = n)
  IN  IF infos = << >> THEN -1 ELSE infos[1].importance

\* C14: every blank of a line-mode result comes from a line of importance
\* at least 5, whatever the difficulty and however few High or Medium
\* lines there are.
LineModeSkipsLowBand ==
  calls > 0 /\ masking_mode_enum = "line" =>
    /\ Len(result.blanks) = Len(locals.selected_lines)
    /\ \A i \in 1..Len(result.blanks) :
         /\ result.blanks[i].is_line
         /\ result.blanks[i].line_number = locals.selected_lines[i].line_number
         /\ locals.selected_lines[i].importance >= 5
         /\ ImportanceOfLine(result.blanks[i].line_number) >= 5

\* a line-mode result that leaves budget unused although a Low band line
\* was available
LineModeSkipsLowBandWitness ==
  /\ calls > 0
  /\ masking_mode_enum = "line"
  /\ LowBand(LineAnalysis[code_snippet]) # << >>
  /\ Len(result.blanks) >= 1
  /\ Len(result.blanks) <
       get_blank_count_for_difficulty(difficulty_mode,
                                      Len(LineAnalysis[code_snippet]))

\* C15: for every input, difficulty and mode, every random draw asks for
\* at most as many units as its band holds and at most the remaining
\* budget, the remaining budget never becomes negative, and
\* create_masked_code does not raise.
CappedDraws ==
  calls > 0 =>
    /\ ~locals.raised
    /\ result # NoResult
    /\ \A i \in 1..Len(locals.draws) :
         LET d == locals.draws[i]
         IN  /\ 0 <= d.count
             /\ d.count <= d.size
             /\ d.count <= d.remaining
             /\ d.remaining - d.count >= 0

\* a draw whose band is smaller than the remaining budget and is taken
\* whole, in mixed mode
CappedDrawsWitness ==
  /\ calls > 0
  /\ masking_mode_enum = "mixed"
  /\ difficulty_mode = "hard"
  /\ \E i \in 1..Len(locals.draws) :
       /\ locals.draws[i].size > 0
       /\ locals.draws[i].size < locals.draws[i].remaining
       /\ locals.draws[i].count = locals.draws[i].size

(***************************************************************************)
(* Properties of the use of the random generator.                          *)
(***************************************************************************)
\* C16: a call of create_masked_code with a session_seed leaves the
\* process-global random generator in the state it had before the call.
SeededCallKeepsGenerator ==
  [][(calls' = calls + 1 /\ session_seed' # None) => rng' = rng]_vars

\* C17: when two create_masked_code calls with seeds S1 and S2 run
\* concurrently, with their seeding and sampling steps interleaved in any
\* order, each call returns the result it returns when run alone with its
\* seed.
ThreadsIndependent ==
  \A t \in DOMAIN threads :
    threads[t].pc = "done" =>
      threads[t].result =
        create_masked_code(code_snippet, difficulty_mode, masking_mode_enum,
                           threads[t].session_seed, 0).result

(***************************************************************************)
(* Properties of the blank records.                                        *)
(***************************************************************************)
\* C18: for every line blank, in line mode and in mixed mode,
\* context_before is the stripped text of the original source line directly
\* above it (empty for the first line) and context_after the stripped text
\* of the original source line directly below it (empty for the last
\* line), also when the adjacent line is itself selected for masking.
ContextIsSourceLine ==
  calls > 0 =>
    \A i \in 1..Len(result.blanks) :
      LET b     == result.blanks[i]
          lines == SplitLines(code_snippet)
      IN  b.is_line =>
            /\ b.context_before =
                 IF b.line_number > 0
                 THEN Strip(lines[b.line_number]) ELSE << >>
            /\ b.context_after =
                 IF b.line_number < Len(lines) - 1
                 THEN Strip(lines[b.line_number + 2]) ELSE << >>

(***************************************************************************)
(* Properties of analyze_code_tokens.                                      *)
(***************************************************************************)
\* the place of a category in the documented pass order: keywords, types,
\* methods, operators, identifiers, numbers, arithmetic
PassOf(category) ==
  CASE category = "keyword"        -> 1
    [] category = "data_structure" -> 2
    [] category = "method"         -> 3
    [] category = "operator"       -> 4
    [] category = "variable"       -> 5
    [] category = "number"         -> 6
    [] category = "arithmetic"     -> 7

\* the texts of a list of alternatives
TextsOf(alts) == { alts[i] : i \in 1..Len(alts) }

\* C19: when matches of several passes start at the same offset,
\* analyze_code_tokens keeps the match of the earliest pass; no kept
\* candidate whose text is a reserved keyword, a built-in type name or a
\* listed method name is categorised "variable", and no kept arithmetic
\* symbol is the first character of a "+="-style operator.
PassPriority ==
  LET kept   == TokenAnalysis[code_snippet]
      pooled == PooledMatches(code_snippet, 1)
  IN  \A i \in 1..Len(kept) :
        /\ \A j \in 1..Len(pooled) :
             pooled[j].start = kept[i].start =>
               PassOf(kept[i].category) <= PassOf(pooled[j].category)
        /\ kept[i].token \in TextsOf(KeywordAlts) \cup TextsOf(DataStructureAlts)
                               \cup TextsOf(MethodAlts)
             => kept[i].category # "variable"
        /\ kept[i].category = "arithmetic" =>
             Slice(code_snippet, kept[i].start, kept[i].start + 2)
               \notin { <<"+","=">>, <<"-","=">>, <<"*","=">>, <<"/","=">> }

\* a text in which a keyword, a type name, a method name and "+=" are kept
\* although a later pass matches at the same offset
PassPriorityWitness ==
  /\ code_snippet \in { ScenarioD, TypeAndMethod }
  /\ LET kept   == TokenAnalysis[code_snippet]
         pooled == PooledMatches(code_snippet, 1)
     IN  \E i \in 1..Len(kept) :
           /\ kept[i].category \in { "data_structure", "operator" }
           /\ \E j \in 1..Len(pooled) :
                /\ pooled[j].start = kept[i].start
                /\ PassOf(pooled[j].category) > PassOf(kept[i].category)
  /\ calls > 0

(***************************************************************************)
(* Properties of the safety check of mixed mode.                           *)
(***************************************************************************)
\* C20: no token placeholder of a mixed-mode result is inserted inside the
\* text of a line placeholder comment: every line placeholder
\* "# ___[n] - <category> line missing here" appears intact in masked_code.
LinePlaceholdersIntact ==
  calls > 0 /\ masking_mode_enum = "mixed" =>
    \A i \in 1..Len(result.blanks) :
      result.blanks[i].is_line =>
        Contains(result.masked_code,
                 LineComment(result.blanks[i].blank_id,
                             result.blanks[i].category))

\* C21: for every token candidate produced by analyze_code_tokens, the hint
\* generated for it differs from the token text itself.
HintDiffersFromToken ==
  \A i \in 1..Len(TokenAnalysis[code_snippet]) :
    TokenAnalysis[code_snippet][i].hint # TokenAnalysis[code_snippet][i].token

(***************************************************************************)
(* Properties of the session manager.                                      *)
(***************************************************************************)
\* C22: the seed generated for a fixed (problem_id, attempt_number,
\* difficulty) triple is the same integer whenever the call is made: the
\* seed a session holds is the seed _generate_seed gives now for the triple
\* it was made from.
SeedIndependentOfTime ==
  \A key \in DOMAIN sessions :
    sessions[key].session_seed =
      _generate_seed(seed_args[key].problem_id, seed_args[key].attempt,
                     seed_args[key].difficulty, now)

(***************************************************************************)
(* Properties of analyze_code_lines.                                       *)
(***************************************************************************)
\* C23: every line classified data_operation (it contains one of .append,
\* .pop, .insert, .remove, .sort) is rated 7 when no earlier rule of the
\* rubric applies, so a data_operation line is never rated below 7.
DataOperationRatedSeven ==
  \A i \in 1..Len(LineAnalysis[code_snippet]) :
    LineAnalysis[code_snippet][i].category = "data_operation" =>
      LineAnalysis[code_snippet][i].importance >= 7

(***************************************************************************)
(* Frame properties of line mode and of the token blanks.                  *)
(***************************************************************************)
\* the 0-based line numbers of the blanks of a result
BlankLineNumbers(res) ==
  { res.blanks[i].line_number : i \in 1..Len(res.blanks) }

\* C24: in every line-mode result masked_code has as many lines as the
\* input, every line that is not the line_number of a blank is identical
\* to the original line, and the line_number values of the blanks are
\* strictly ascending 0-based indices of original lines that are neither
\* blank nor comments.
LineModeFrame ==
  calls > 0 /\ masking_mode_enum = "line" =>
    LET original == SplitLines(code_snippet)
        masked   == SplitLines(result.masked_code)
    IN  /\ Len(masked) = Len(original)
        /\ \A k \in 1..Len(original) :
             (k - 1) \notin BlankLineNumbers(result) => masked[k] = original[k]
        /\ \A i \in 1..Len(result.blanks) :
             /\ result.blanks[i].is_line
             /\ result.blanks[i].line_number \in 0..(Len(original) - 1)
             /\ Strip(original[result.blanks[i].line_number + 1]) # << >>
             /\ ~StartsWith(Strip(original[result.blanks[i].line_number + 1]),
                            <<"#">>)
             /\ \A j \in 1..Len(result.blanks) :
                  i < j => result.blanks[i].line_number
                             < result.blanks[j].line_number

\* a line-mode result with several blanks that leaves lines with text
\* untouched
LineModeFrameWitness ==
  /\ calls > 0
  /\ masking_mode_enum = "line"
  /\ Len(result.blanks) >= 2
  /\ \E k \in 1..Len(SplitLines(code_snippet)) :
       /\ (k - 1) \notin BlankLineNumbers(result)
       /\ Strip(SplitLines(code_snippet)[k]) # << >>

\* C25: for every token blank returned in token mode, position is the
\* character position of the token in the original code and length is the
\* length of the original token.
BlankFieldsDescribeOriginal ==
  calls > 0 /\ masking_mode_enum = "token" =>
    /\ Len(result.blanks) = Len(locals.selected_tokens)
    /\ \A i \in 1..Len(result.blanks) :
         /\ result.blanks[i].position = locals.selected_tokens[i].start
         /\ result.blanks[i].length = Len(result.blanks[i].token)
         /\ Slice(code_snippet, result.blanks[i].position,
                  result.blanks[i].position + result.blanks[i].length)
              = result.blanks[i].token

SeedRequests == { "get_session_seed", "get_new_variation_seed" }

\* C27: a get_session_seed or get_new_variation_seed call for a key that has
\* no session creates one with attempt_number 1, a call for a key that has
\* a session increases its attempt_number by exactly 1, the session stores
\* the seed the call returns (the seed of that attempt), and the sessions of
\* the other keys are not changed.
AttemptCounter ==
  last_call.op \in SeedRequests =>
    LET key    == last_call.key
        before == last_call.before
    IN  /\ DOMAIN sessions = DOMAIN before \cup { key }
        /\ key \notin DOMAIN before => sessions[key].attempt_number = 1
        /\ key \in DOMAIN before =>
             sessions[key].attempt_number = before[key].attempt_number + 1
        /\ sessions[key].session_seed = last_call.returned
        /\ last_call.returned =
             _generate_seed(last_call.problem_id,
                            sessions[key].attempt_number,
                            last_call.difficulty, last_call.at)
        /\ \A other \in DOMAIN before \ { key } :
             sessions[other] = before[other]

\* a third attempt for one key while another key has a session
AttemptCounterWitness ==
  /\ last_call.op = "get_new_variation_seed"
  /\ last_call.key \in DOMAIN last_call.before
  /\ sessions[last_call.key].attempt_number = 3
  /\ \E other \in DOMAIN sessions : other # last_call.key

\* C28: for every session, the difficulty and attempt_number reported by
\* get_session_info are the ones from which the session's current
\* session_seed was generated.
InfoMatchesSeed ==
  \A key \in DOMAIN sessions :
    /\ get_session_info(sessions, key).attempt_number = seed_args[key].attempt
    /\ get_session_info(sessions, key).difficulty = seed_args[key].difficulty

\* C29: clean_old_sessions(max_age_hours) removes exactly the sessions
\* whose created_at is more than max_age_hours * 3600 seconds before the
\* time of the call and leaves every other session as it was; a seed request
\* sets created_at of its session to the time of the request, so that the
\* age counts again from there, and a seed request for a key without a
\* session (never created, or removed) starts at attempt 1.
CleanupExact ==
  LET before == last_call.before
  IN  /\ last_call.op = "clean_old_sessions" =>
           /\ DOMAIN sessions =
                { key \in DOMAIN before :
                    last_call.at - before[key].created_at
                      <= last_call.max_age_hours * 3600 }
           /\ \A key \in DOMAIN sessions : sessions[key] = before[key]
      /\ last_call.op \in SeedRequests =>
           /\ sessions[last_call.key].created_at = last_call.at
           /\ last_call.key \notin DOMAIN before =>
                sessions[last_call.key].attempt_number = 1

\* a cleanup that removes an old session and keeps a refreshed one whose
\* age is exactly the limit
CleanupExactWitness ==
  /\ last_call.op = "clean_old_sessions"
  /\ \E key \in DOMAIN last_call.before : key \notin DOMAIN sessions
  /\ \E key \in DOMAIN sessions :
       /\ sessions[key].attempt_number >= 2
       /\ sessions[key].created_at > 0
       /\ last_call.at - sessions[key].created_at
            = last_call.max_age_hours * 3600

\* C30: create_multiple_masks(code, count) returns without raising, and
\* the list it returns holds at most count masks, each with at least one
\* blank.
MultipleMasksReturned ==
  masks.n > 0 =>
    /\ ~masks.raised
    /\ Len(masks.masks) <= masks.count
    /\ \A i \in 1..Len(masks.masks) : masks.masks[i].blanks # << >>

====
